---- MODULE Spec2Model ----
(***************************************************************************)
(* Model of the DM agent of ai-dungeon-master: the tool registry           *)
(* (DMAgent._execute_tool), the buffered dispatch loop (DMAgent.respond)   *)
(* and the streamed dispatch loop (DMAgent.respond_stream), together with  *)
(* the session log and the dice roller they act on.                        *)
(*                                                                         *)
(* Strings that the program builds with f-strings are modelled as tuples   *)
(* of their parts; Optional[str] values are records [some, val].           *)
(***************************************************************************)
EXTENDS Integers, Sequences, FiniteSets, TLC

(***************************************************************************)
(* Bounds of the model                                                     *)
(***************************************************************************)
\* the language model requests at most this many tool calls in one turn,
\* spread as it likes over its responses
MaxTurnToolCalls == 3
\* the seeds the dice roller is built with
Seeds == {7}

\* The maximum number of tool-resolution rounds per turn that the design
\* asks for (a configuration parameter; DMAgent.respond has none).
MaxRounds == 2

\* No sequence of the model grows beyond this length in a turn with at most
\* MaxTurnToolCalls tool calls; Push saturates there, so that a turn that
\* never ends has finitely many states.
MaxHist == 4 + 2 * MaxTurnToolCalls

\* a test calls _execute_tool at most this many times on one agent
MaxDirectCalls == 2

\* a campaign is linked to at most this many sessions
MaxSessions == 2

\* the provider sends at most this many chunks in one stream
MaxStreamChunks == 4

\* a test makes at most this many calls of _execute_tool on an agent with a
\* campaign
MaxCampaignCalls == 2

(***************************************************************************)
(* Helpers                                                                 *)
(***************************************************************************)
\* list.append, saturating at MaxHist
Push(s, x) == IF Len(s) < MaxHist THEN Append(s, x) ELSE s

\* a counter of the harness, saturating at MaxHist
Inc(n) == IF n < MaxHist THEN n + 1 ELSE n

\* Optional[str]
None == [some |-> FALSE, val |-> <<>>]
Some(s) == [some |-> TRUE, val |-> s]
\* Python truthiness of an Optional[str]: None and "" are falsy
Truthy(o) == o.some /\ o.val # <<>>
\* `o or ""`
OrEmpty(o) == IF Truthy(o) THEN o.val ELSE <<>>
\* `o or None`, for a str o
OrNone(s) == IF s # <<>> THEN Some(s) ELSE None

RECURSIVE SumSeq(_)
SumSeq(s) == IF s = <<>> THEN 0 ELSE Head(s) + SumSeq(Tail(s))

Min(a, b) == IF a <= b THEN a ELSE b

(***************************************************************************)
(* Dice roller (rpg_dm.utilities.dice.DiceRoller): notation parser and     *)
(* evaluator.  A notation is a tuple of one-character strings.             *)
(***************************************************************************)
Digit == {"0", "1", "2", "3", "4", "5", "6", "7", "8", "9"}

DigitVal(c) ==
  CASE c = "0" -> 0 [] c = "1" -> 1 [] c = "2" -> 2 [] c = "3" -> 3
    [] c = "4" -> 4 [] c = "5" -> 5 [] c = "6" -> 6 [] c = "7" -> 7
    [] c = "8" -> 8 [] c = "9" -> 9

\* the grammar is case-insensitive
Lower(c) ==
  CASE c = "D" -> "d" [] c = "K" -> "k" [] c = "H" -> "h" [] c = "L" -> "l"
    [] OTHER -> c

\* the position after the maximal run of digits of s that starts at i
DigitsEnd(s, i) ==
  CHOOSE j \in i..(Len(s) + 1) :
    /\ \A k \in i..(j - 1) : s[k] \in Digit
    /\ (j = Len(s) + 1 \/ s[j] \notin Digit)

\* the number written by the digits s[i], ..., s[j-1]
RECURSIVE Num(_, _, _)
Num(s, i, j) == IF i >= j THEN 0 ELSE Num(s, i, j - 1) * 10 + DigitVal(s[j - 1])

ParseError(kind) ==
  [ok |-> FALSE, error |-> kind, count |-> 0, sides |-> 0,
   keep |-> "none", n |-> 0, modifier |-> 0]

\* the optional modifier, from position p3 on, and the end of the text
ParseModifier(t, p3, count, sides, keep, n) ==
  LET hasMod == /\ p3 <= Len(t)
                /\ t[p3] \in {"+", "-"}
                /\ DigitsEnd(t, p3 + 1) > p3 + 1
      p4  == IF hasMod THEN DigitsEnd(t, p3 + 1) ELSE p3
      mag == IF hasMod THEN Num(t, p3 + 1, p4) ELSE 0
  IN IF p4 # Len(t) + 1 THEN ParseError("trailing_characters")
     ELSE [ok |-> TRUE, error |-> "none", count |-> count, sides |-> sides,
           keep |-> keep, n |-> n,
           modifier |-> IF hasMod /\ t[p3] = "-" THEN 0 - mag ELSE mag]

\* the optional keep clause, from position p2 on
ParseKeep(t, p2, count, sides) ==
  LET hasKeep == /\ p2 + 1 <= Len(t)
                 /\ t[p2] = "k"
                 /\ t[p2 + 1] \in {"h", "l"}
                 /\ DigitsEnd(t, p2 + 2) > p2 + 2
      p3 == DigitsEnd(t, p2 + 2)
      n  == Num(t, p2 + 2, p3)
  IN IF ~hasKeep THEN ParseModifier(t, p2, count, sides, "none", 0)
     ELSE IF n < 1 THEN ParseError("zero_keep")
     ELSE IF n > count THEN ParseError("keep_exceeds_count")
     ELSE ParseModifier(t, p3, count, sides,
                        IF t[p2 + 1] = "h" THEN "kh" ELSE "kl", n)

\* a parser with one error kind for a zero count and for zero sides
ParseSidesOneKind(t, p1, count) ==
  LET p2    == DigitsEnd(t, p1 + 1)
      sides == Num(t, p1 + 1, p2)
  IN IF count = 0 THEN ParseError("zero_count")
     ELSE IF p2 = p1 + 1 THEN ParseError("non_numeric_sides")
     ELSE IF sides = 0 THEN ParseError("zero_count")
     ELSE ParseKeep(t, p2, count, sides)

\* the sides, from position p1 + 1 on (t[p1] is the separator)
ParseSides(t, p1, count) ==
  LET p2    == DigitsEnd(t, p1 + 1)
      sides == Num(t, p1 + 1, p2)
  IN IF count = 0 THEN ParseError("zero_count")
     ELSE IF p2 = p1 + 1 THEN ParseError("non_numeric_sides")
     ELSE IF sides = 0 THEN ParseError("zero_sides")
     ELSE ParseKeep(t, p2, count, sides)

\* parse(text): [count] "d" sides [("kh" | "kl") n] [("+" | "-") digits]
ParseNotation(text) ==
  LET t  == [k \in 1..Len(text) |-> Lower(text[k])]
      p1 == DigitsEnd(t, 1)
  IN IF p1 > Len(t) \/ t[p1] # "d" THEN ParseError("missing_separator")
     ELSE ParseSides(t, p1, IF p1 = 1 THEN 1 ELSE Num(t, 1, p1))

\* a draw in [0, sides - 1]
RngDrawFromZero(st, sides) == st % sides

\* the seeded random source: one draw in [1, sides] and the state after it
RngDraw(st, sides) == (st % sides) + 1
RngStep(st) == (st * 5 + 3) % 16

\* `count` draws from the source in state st
RECURSIVE DrawN(_, _, _)
DrawN(st, count, sides) ==
  IF count = 0 THEN [rolls |-> <<>>, rng |-> st]
  ELSE LET d == DrawN(st, count - 1, sides)
       IN [rolls |-> Append(d.rolls, RngDraw(d.rng, sides)), rng |-> RngStep(d.rng)]

\* the keep clause: the n highest (lowest) rolls by value, ties broken by
\* roll order, earliest first; without a keep clause all the rolls
KeptRolls(rolls, expr) ==
  IF expr.keep = "none" THEN rolls
  ELSE
  LET Beats(j, i) ==
        \/ (expr.keep = "kh" /\ rolls[j] > rolls[i])
        \/ (expr.keep = "kl" /\ rolls[j] < rolls[i])
        \/ (rolls[j] = rolls[i] /\ j < i)
      Rank(i) == Cardinality({j \in 1..Len(rolls) : Beats(j, i)})
  IN [r \in 1..Min(expr.n, Len(rolls)) |->
        rolls[CHOOSE i \in 1..Len(rolls) : Rank(i) = r - 1]]

\* a total that adds the magnitude of the modifier, whatever its sign
EvaluatedAddsMagnitude(d, kept, expr) ==
  [individual_rolls |-> d.rolls, kept_rolls |-> kept,
   modifier |-> expr.modifier,
   total |-> SumSeq(kept) + (IF expr.modifier < 0 THEN 0 - expr.modifier
                             ELSE expr.modifier),
   rng |-> d.rng]

\* the result of one full draw d of the expression
Evaluated(d, kept, expr) ==
  [individual_rolls |-> d.rolls, kept_rolls |-> kept,
   modifier |-> expr.modifier,
   total |-> SumSeq(kept) + expr.modifier, rng |-> d.rng]

Kept(d, expr) == Evaluated(d, KeptRolls(d.rolls, expr), expr)

\* one full draw of the expression
Evaluate(st, expr) == Kept(DrawN(st, expr.count, expr.sides), expr)

\* the RollResult of the draw e; `other` holds the rolls of the draw that
\* an advantage or disadvantage roll did not select
RollResult(notation, mode, e, other) ==
  [individual_rolls |-> e.individual_rolls, kept_rolls |-> e.kept_rolls,
   modifier |-> e.modifier, total |-> e.total,
   details |-> [notation |-> notation, mode |-> mode,
                rolls |-> e.individual_rolls, kept |-> e.kept_rolls,
                other |-> other, modifier |-> e.modifier, total |-> e.total]]

Rolled(notation, mode, e, other, st) ==
  [raised |-> "none", rng |-> st, result |-> RollResult(notation, mode, e, other)]

RollRaised(st, kind) == [raised |-> "ValueError", rng |-> st, result |-> kind]

RollParsed(st, notation, expr) ==
  IF ~expr.ok THEN RollRaised(st, expr.error)
  ELSE Rolled(notation, "normal", Evaluate(st, expr), <<>>,
              Evaluate(st, expr).rng)

\* DiceRoller.roll(notation): a parse error is raised as ValueError
DiceRoll(st, notation) == RollParsed(st, notation, ParseNotation(notation))

\* of two draws the higher total wins with advantage, the lower with
\* disadvantage, the first on a tie
SelectDraw(notation, mode, e1, e2) ==
  IF (mode = "advantage" /\ e1.total >= e2.total)
     \/ (mode = "disadvantage" /\ e1.total <= e2.total)
  THEN Rolled(notation, mode, e1, e2.individual_rolls, e2.rng)
  ELSE Rolled(notation, mode, e2, e1.individual_rolls, e2.rng)

SecondDraw(notation, mode, expr, e1) ==
  SelectDraw(notation, mode, e1, Evaluate(e1.rng, expr))

\* a roller that draws the dice before it looks at the keep clause
RollTwiceParsedDrawsFirst(st, notation, mode, expr) ==
  IF ~expr.ok THEN RollRaised(st, expr.error)
  ELSE IF expr.keep # "none"
  THEN RollRaised(Evaluate(st, expr).rng, "keep_with_mode")
  ELSE SecondDraw(notation, mode, expr, Evaluate(st, expr))

RollTwiceParsed(st, notation, mode, expr) ==
  IF ~expr.ok THEN RollRaised(st, expr.error)
  ELSE IF expr.keep # "none" THEN RollRaised(st, "keep_with_mode")
  ELSE SecondDraw(notation, mode, expr, Evaluate(st, expr))

\* DiceRoller.advantage(notation) / DiceRoller.disadvantage(notation): two
\* full draws; a keep clause is a usage error
DiceRollTwice(st, notation, mode) ==
  RollTwiceParsed(st, notation, mode, ParseNotation(notation))

(***************************************************************************)
(* Session log (rpg_dm.memory.SessionLog): the event log and the scenes.   *)
(* A session is [session_id, events, scenes, current_scene]; current_scene *)
(* is the id of the active scene, 0 when there is none; scene ids are      *)
(* 1, 2, ...                                                               *)
(***************************************************************************)
NewSession == [session_id |-> <<"session_1">>, events |-> <<>>,
               scenes |-> <<>>, current_scene |-> 0]

\* SessionLog.log_event: append the event; an active scene records it
SessionLogEvent(session, event_type, content, actor, metadata) ==
  LET ev == [event_type |-> event_type, content |-> content,
             actor |-> actor, metadata |-> metadata,
             scene_id |-> session.current_scene]
  IN [session EXCEPT !.events = Push(@, ev)]

\* SessionLog.end_scene: mark the active scene ended and store the summary
SessionEndScene(session, summary) ==
  IF session.current_scene = 0 THEN session
  ELSE [session EXCEPT
          !.scenes[session.current_scene].status = "ended",
          !.scenes[session.current_scene].summary = summary,
          !.current_scene = 0]

\* a start_scene that leaves the scene before it active
SessionStartSceneKeepsActive(session, title, location) ==
  IF Len(session.scenes) >= MaxHist THEN session
  ELSE
  LET id    == Len(session.scenes) + 1
      scene == [scene_id |-> id, title |-> title, location |-> location,
                status |-> "active", summary |-> None]
  IN [session EXCEPT !.scenes = Append(@, scene), !.current_scene = id]

\* SessionLog.start_scene: end any active scene, then create and activate
\* the new one
SessionStartScene(session, title, location) ==
  IF Len(session.scenes) >= MaxHist THEN session
  ELSE
  LET ended == SessionEndScene(session, None)
      id    == Len(ended.scenes) + 1
      scene == [scene_id |-> id, title |-> title, location |-> location,
                status |-> "active", summary |-> None]
  IN [ended EXCEPT !.scenes = Append(@, scene), !.current_scene = id]

\* the scenes of the session that are active
ActiveScenes(session) ==
  {k \in 1..Len(session.scenes) : session.scenes[k].status = "active"}

(***************************************************************************)
(* Tool registry: DMAgent._execute_tool                                    *)
(***************************************************************************)
\* dict.get(key) for an Optional[str] argument
ArgGet(arguments, key) ==
  IF key \in DOMAIN arguments THEN Some(arguments[key]) ELSE None

\* s[:50]
Take50(s) == SubSeq(s, 1, Min(50, Len(s)))

\* the result of _execute_tool: the exception raised ("none" if it
\* returned), the string returned, and the state it leaves
ToolReturn(result, session, rng) ==
  [raised |-> "none", result |-> result, session |-> session, rng |-> rng]
ToolRaise(exc, session, rng) ==
  [raised |-> exc, result |-> <<>>, session |-> session, rng |-> rng]

\* the roll r succeeded: log it and return its details
RollLogged(r, session, notation, roll_type, purpose) ==
  ToolReturn(<<"Roll result: ", r.result.details>>,
             SessionLogEvent(session, "dice_roll",
                             <<purpose, ": ", r.result.details>>, "DM",
                             <<<<"notation", notation>>,
                               <<"roll_type", roll_type>>,
                               <<"total", r.result.total>>>>),
             r.rng)

RollOutcome(r, session, notation, roll_type, purpose) ==
  IF r.raised # "none" THEN ToolRaise(r.raised, session, r.rng)
  ELSE RollLogged(r, session, notation, roll_type, purpose)

RollByType(notation, roll_type, purpose, session, rng) ==
  RollOutcome(IF roll_type = "advantage"
              THEN DiceRollTwice(rng, notation, "advantage")
              ELSE IF roll_type = "disadvantage"
              THEN DiceRollTwice(rng, notation, "disadvantage")
              ELSE DiceRoll(rng, notation),
              session, notation, roll_type, purpose)

ExecRollDice(arguments, session, rng) ==
  IF "notation" \notin DOMAIN arguments THEN ToolRaise("KeyError", session, rng)
  ELSE IF "purpose" \notin DOMAIN arguments THEN ToolRaise("KeyError", session, rng)
  ELSE RollByType(arguments.notation,
                  IF "roll_type" \in DOMAIN arguments
                  THEN arguments.roll_type ELSE "normal",
                  arguments.purpose, session, rng)

ExecStartScene(arguments, session, rng) ==
  IF "title" \notin DOMAIN arguments THEN ToolRaise("KeyError", session, rng)
  ELSE IF "location" \notin DOMAIN arguments THEN ToolRaise("KeyError", session, rng)
  ELSE
  LET started == SessionStartScene(session, arguments.title, arguments.location)
  IN ToolReturn(<<"Started new scene: '", arguments.title, "' at ",
                  arguments.location, " (Scene ID: ", started.current_scene, ")">>,
                started, rng)

\* an end_scene that reports the end of the scene and leaves it active
ExecEndSceneReportsOnly(arguments, session, rng) ==
  LET summary == ArgGet(arguments, "summary")
  IN ToolReturn(<<"Ended current scene. Summary: ",
                  IF Truthy(summary) THEN summary.val ELSE <<"None">>>>,
                session, rng)

ExecEndScene(arguments, session, rng) ==
  LET summary == ArgGet(arguments, "summary")
  IN ToolReturn(<<"Ended current scene. Summary: ",
                  IF Truthy(summary) THEN summary.val ELSE <<"None">>>>,
                SessionEndScene(session, summary), rng)

ExecLogEvent(arguments, session, rng) ==
  IF "event_type" \notin DOMAIN arguments THEN ToolRaise("KeyError", session, rng)
  ELSE IF "content" \notin DOMAIN arguments THEN ToolRaise("KeyError", session, rng)
  ELSE
  LET actor == IF "actor" \in DOMAIN arguments THEN arguments.actor ELSE "system"
  IN ToolReturn(<<"Logged ", arguments.event_type, " event: ",
                  Take50(arguments.content), "...">>,
                SessionLogEvent(session, arguments.event_type,
                                arguments.content, actor, <<>>),
                rng)

\* a dispatch that raises on a name no handler matches
ExecuteToolUnknownRaises(tool_name, arguments, session, rng) ==
  IF tool_name = "roll_dice" THEN ExecRollDice(arguments, session, rng)
  ELSE IF tool_name = "start_scene" THEN ExecStartScene(arguments, session, rng)
  ELSE IF tool_name = "end_scene" THEN ExecEndScene(arguments, session, rng)
  ELSE IF tool_name = "log_event" THEN ExecLogEvent(arguments, session, rng)
  ELSE ToolRaise("KeyError", session, rng)

\* the agents of this model are built without a campaign manager, so the
\* campaign branches (`... and self.campaign_manager`) are never taken
ExecuteTool(tool_name, arguments, session, rng) ==
  IF tool_name = "roll_dice" THEN ExecRollDice(arguments, session, rng)
  ELSE IF tool_name = "start_scene" THEN ExecStartScene(arguments, session, rng)
  ELSE IF tool_name = "end_scene" THEN ExecEndScene(arguments, session, rng)
  ELSE IF tool_name = "log_event" THEN ExecLogEvent(arguments, session, rng)
  ELSE ToolReturn(<<"Unknown tool: ", tool_name>>, session, rng)

(***************************************************************************)
(* The language model (LLMClient behind a scripted provider)               *)
(***************************************************************************)
\* the tool calls the language model may request
Catalogue == <<
  [name |-> "roll_dice",
   arguments |-> [notation |-> <<"d", "2", "0">>, purpose |-> "Attack roll"]],
  [name |-> "roll_dice",
   arguments |-> [notation |-> <<"d", "2", "0">>]],
  [name |-> "roll_dice",
   arguments |-> [notation |-> <<"a", "b", "c">>, purpose |-> "Attack roll"]],
  [name |-> "roll_dice",
   arguments |-> [notation |-> <<"2", "d", "6", "+", "3">>, purpose |-> "Damage",
                  roll_type |-> "lucky"]],
  [name |-> "start_scene",
   arguments |-> [title |-> "The Tavern", location |-> "Leaky Dragon Inn"]],
  [name |-> "start_scene",
   arguments |-> [location |-> "Leaky Dragon Inn"]],
  [name |-> "end_scene",
   arguments |-> [summary |-> <<"The heroes left the tavern.">>]],
  [name |-> "log_event",
   arguments |-> [event_type |-> "npc_dialogue",
                  content |-> <<"H", "a", "l", "t", "!">>, actor |-> "Guard"]],
  [name |-> "log_event",
   arguments |-> [event_type |-> "npc_dialogue"]],
  [name |-> "unknown_tool",
   arguments |-> [spell |-> "fireball"]]
>>

\* the tool names _execute_tool handles for an agent without campaign manager
RegisteredTools == {"roll_dice", "start_scene", "end_scene", "log_event"}

\* the contents a response may carry: absent, or a text of two deltas
Contents == {None, Some(<<"The attack ", "hits!">>)}

\* a tool call as the client hands it to the agent (llm/types.py ToolCall)
ToolCall(id, c) ==
  [id |-> id, type |-> "function",
   function |-> [name |-> Catalogue[c].name, arguments |-> Catalogue[c].arguments]]

\* the tool-call lists of the response to model call number k: at most
\* `budget` calls drawn from the catalogue entries pal; the provider gives
\* every tool call a fresh id
ToolCallLists(k, pal, budget) ==
  UNION {{[j \in 1..n |-> ToolCall(<<k, j>>, f[j])] : f \in [1..n -> pal]}
         : n \in 0..budget}

\* the responses to model call number k after the responses scr: the
\* responses of one turn that carry tool calls all carry the same content
Responses(k, pal, budget, scr) ==
  {r \in {[content |-> c, tool_calls |-> tcs] :
            c \in Contents, tcs \in ToolCallLists(k, pal, budget)} :
     \/ r.tool_calls = <<>>
     \/ \A j \in 1..Len(scr) :
          scr[j].tool_calls = <<>> \/ scr[j].content = r.content}

\* the number of tool calls the responses of a script carry
RECURSIVE Requested(_)
Requested(scr) ==
  IF scr = <<>> THEN 0 ELSE Len(Head(scr).tool_calls) + Requested(Tail(scr))

\* pydantic model_dump of a ToolCall: the dict with the same fields
ModelDump(tc) ==
  [id |-> tc.id, type |-> tc.type,
   function |-> [name |-> tc.function.name, arguments |-> tc.function.arguments]]

\* ChatMessage
Message(role, content, tool_calls, tool_call_id) ==
  [role |-> role, content |-> content, tool_calls |-> tool_calls,
   tool_call_id |-> tool_call_id]

\* the chunks LLMClient.chat_stream yields for a response: one chunk per
\* content delta, then the finish chunk that carries the tool calls
StreamOf(resp) ==
  [k \in 1..Len(resp.content.val) |->
     [content |-> Some(<<resp.content.val[k]>>), tool_calls |-> <<>>,
      finish_reason |-> "none"]]
  \o <<[content |-> None, tool_calls |-> resp.tool_calls,
        finish_reason |-> IF resp.tool_calls # <<>> THEN "tool_calls" ELSE "stop"]>>

(***************************************************************************)
(* State                                                                   *)
(***************************************************************************)
VARIABLES
  variant,      \* the method that runs the turn: "respond" or "respond_stream"
  phase,        \* 1: the turn runs; 2: the same turn runs again, on a fresh
                \* agent, through the other method
  env,          \* "free": the language model answers as it likes;
                \* "loop": it requests the same tool in every response
  palette,      \* the catalogue entries the language model uses in this turn
  seed,         \* the seed the dice roller was built with
  pc,           \* position of the method in its code
  raised,       \* the exception that escaped the method, "none" if none
  messages,     \* the message history `messages`
  response,     \* the last LLMResponse (`response`)
  i,            \* index of the tool call the for loop is at
  modelCalls,   \* number of calls of llm_client.chat / chat_stream
  rounds,       \* number of tool-resolution rounds entered
  trace,        \* the calls of _execute_tool made, in order
  session,      \* the SessionLog
  rng,          \* state of the dice roller's random source
  retval,       \* what respond returned
  output,       \* what respond_stream yielded, in order
  accumulated_content,
  accumulated_tool_calls,
  chunks,       \* the chunks chat_stream has still to yield
  script,       \* the responses of the language model so far, in order
  first,        \* what the first run of the turn did (phase 2)
  campaign_manager,  \* whether the agent was built with a campaign manager
  last_call,    \* the latest direct call of _execute_tool and its outcome
  agent_tools,  \* the names of the tools the latest get_tools() returned
  provider_chunks,        \* the chunks the provider's stream has delivered
  tool_call_accumulator,  \* chat_stream's dict, its entries in insertion order
  yielded,      \* the StreamChunks chat_stream has yielded, each with the
                \* number of provider chunks delivered when it was yielded
  client_pc,    \* chat_stream: "off", "streaming", "returned" or "raised"
  roll,         \* the latest direct call of the dice roller and its outcome
  campaign,       \* CampaignManager.campaign: None or the Campaign
  campaign_file,  \* the campaign file on disk: None (no file) or its data
  manager_call    \* the latest call of the campaign manager and its outcome

vars == <<variant, phase, env, palette, seed, pc, raised, messages, response,
          i, modelCalls, rounds, trace, session, rng, retval, output,
          accumulated_content, accumulated_tool_calls, chunks, script, first,
          campaign_manager, last_call, agent_tools, provider_chunks,
          tool_call_accumulator, yielded, client_pc, roll, campaign,
          campaign_file, manager_call>>

PlayerMessage == <<"I attack the goblin">>
SystemPrompt == <<"You are an expert Dungeon Master running a tabletop RPG game.">>
NoResponse == [content |-> None, tool_calls |-> <<>>]
NoRun == [variant |-> "none", pc |-> "none", raised |-> "none", modelCalls |-> 0,
          trace |-> <<>>, session |-> NewSession, rng |-> 0]

\* no direct call of _execute_tool has been made
NoCall == [name |-> "none", arguments |-> <<>>, session |-> NewSession,
           rng |-> 0, r |-> [raised |-> "none", result |-> <<>>,
                             session |-> NewSession, rng |-> 0]]

\* the dice roller has not been called directly
NoRoll == [notation |-> <<>>, mode |-> "none", rng |-> 0,
           r |-> [raised |-> "none", rng |-> 0, result |-> <<>>]]

\* the campaign manager has not been called
NoManagerCall == [op |-> "none", raised |-> "none", result |-> <<>>,
                  campaign |-> None, campaign_file |-> None]

\* the variables only the direct calls of a test change
clientVars == <<provider_chunks, tool_call_accumulator, yielded, client_pc>>
managerVars == <<campaign, campaign_file, manager_call>>
probes == <<campaign_manager, last_call, agent_tools, clientVars, roll,
           managerVars>>

\* the agent of the dm_agent fixture has no campaign manager
InitProbes ==
  /\ campaign_manager = FALSE
  /\ last_call = NoCall
  /\ agent_tools = <<>>
  /\ provider_chunks = <<>>
  /\ tool_call_accumulator = <<>>
  /\ yielded = <<>>
  /\ client_pc = "off"
  /\ roll = NoRoll
  /\ campaign = None
  /\ campaign_file = None
  /\ manager_call = NoManagerCall

\* SessionLog.get_context_for_llm: a rendering of the logged events
ContextForLLM(s) == s.events

\* a freshly built agent with its session log and dice roller
FreshAgent(v, sd) ==
  /\ variant' = v
  /\ pc' = "idle"
  /\ raised' = "none"
  /\ messages' = <<>>
  /\ response' = NoResponse
  /\ i' = 0
  /\ modelCalls' = 0
  /\ rounds' = 0
  /\ trace' = <<>>
  /\ session' = NewSession
  /\ rng' = sd
  /\ retval' = <<>>
  /\ output' = <<>>
  /\ accumulated_content' = <<>>
  /\ accumulated_tool_calls' = <<>>
  /\ chunks' = <<>>

InitAgent(v, sd) ==
  /\ variant = v
  /\ pc = "idle"
  /\ raised = "none"
  /\ messages = <<>>
  /\ response = NoResponse
  /\ i = 0
  /\ modelCalls = 0
  /\ rounds = 0
  /\ trace = <<>>
  /\ session = NewSession
  /\ rng = sd
  /\ retval = <<>>
  /\ output = <<>>
  /\ accumulated_content = <<>>
  /\ accumulated_tool_calls = <<>>
  /\ chunks = <<>>

\* the turn is first run by respond, against a language model that answers
\* freely with tool calls of the catalogue
Init ==
  /\ phase = 1
  /\ env = "free"
  /\ palette = 1..Len(Catalogue)
  /\ seed \in Seeds
  /\ script = <<>>
  /\ first = NoRun
  /\ InitProbes
  /\ InitAgent("respond", seed)

\* the language model requests one and the same tool in every response: a
\* scene tool, the event log or a tool the agent does not know
InitLoop ==
  /\ phase = 1
  /\ env = "loop"
  /\ \E c \in 1..Len(Catalogue) :
       /\ Catalogue[c].name # "roll_dice"
       /\ palette = {c}
  /\ seed \in Seeds
  /\ script = <<>>
  /\ first = NoRun
  /\ InitProbes
  /\ \E v \in {"respond", "respond_stream"} : InitAgent(v, seed)

\* the responses the language model may give to model call number k
Reply(k) ==
  IF env = "loop"
  THEN {[content |-> None,
         tool_calls |-> <<ToolCall(<<k, 1>>, CHOOSE c \in palette : TRUE)>>]}
  ELSE IF k <= Len(script) THEN {script[k]}
  ELSE Responses(k, palette, MaxTurnToolCalls - Requested(script), script)

\* the system prompt, the session context and the user message
InitialMessages(s) ==
  <<Message("system", Some(SystemPrompt), <<>>, <<>>),
    Message("system", Some(<<"Session context:\n", ContextForLLM(s)>>), <<>>, <<>>),
    Message("user", Some(PlayerMessage), <<>>, <<>>)>>

\* the record of one call of _execute_tool
Executed(tc, r) ==
  [name |-> tc.function.name, arguments |-> tc.function.arguments,
   id |-> tc.id, raised |-> r.raised]

(***************************************************************************)
(* DMAgent._get_campaign_context: the lines of the campaign context        *)
(***************************************************************************)
IsActivePlot(pt) == pt.status = "active"

\* the lines of the active plot threads
RECURSIVE PlotLines(_)
PlotLines(plots) ==
  IF plots = <<>> THEN <<>>
  ELSE <<<<"- ", Head(plots).title, ": ", Head(plots).description>>>>
       \o (IF Head(plots).updates # <<>>
           THEN <<<<"  Latest: ",
                    Head(plots).updates[Len(Head(plots).updates)].description>>>>
           ELSE <<>>)
       \o PlotLines(Tail(plots))

\* the lines of the NPCs
RECURSIVE NpcLines(_)
NpcLines(npcs) ==
  IF npcs = <<>> THEN <<>>
  ELSE <<<<"- ", Head(npcs).name, " (",
           IF Truthy(Head(npcs).role) THEN Head(npcs).role.val ELSE <<"NPC">>,
           "): ", Head(npcs).description>>>>
       \o (IF Head(npcs).knowledge # <<>>
           THEN <<<<"  Knows: ",
                    SubSeq(Head(npcs).knowledge, 1,
                           Min(3, Len(Head(npcs).knowledge)))>>>>
           ELSE <<>>)
       \o (IF Truthy(Head(npcs).last_seen_location)
           THEN <<<<"  Last seen: ", Head(npcs).last_seen_location.val>>>>
           ELSE <<>>)
       \o NpcLines(Tail(npcs))

\* the lines of the locations
RECURSIVE LocationLines(_)
LocationLines(locs) ==
  IF locs = <<>> THEN <<>>
  ELSE <<<<"- ", Head(locs).name, ": ", Head(locs).description>>>>
       \o (IF Head(locs).notable_events # <<>>
           THEN <<<<"  Events: ",
                    Head(locs).notable_events[Len(Head(locs).notable_events)]>>>>
           ELSE <<>>)
       \o LocationLines(Tail(locs))

\* the context of a campaign: overview, active plot threads, the first ten
\* NPCs and the first eight locations
CampaignContext(c) ==
  <<<<"Campaign: ", c.name>>, <<"Setting: ", c.setting>>>>
  \o (IF Truthy(c.overarching_goal)
      THEN <<<<"Overarching Goal: ", c.overarching_goal.val>>>> ELSE <<>>)
  \o <<<<>>>>
  \o (IF SelectSeq(c.plot_threads, IsActivePlot) # <<>>
      THEN <<<<"Active Plot Threads:">>>>
           \o PlotLines(SelectSeq(c.plot_threads, IsActivePlot)) \o <<<<>>>>
      ELSE <<>>)
  \o (IF c.npcs # <<>>
      THEN <<<<"Known NPCs:">>>>
           \o NpcLines(SubSeq(c.npcs, 1, Min(10, Len(c.npcs)))) \o <<<<>>>>
      ELSE <<>>)
  \o (IF c.locations # <<>>
      THEN <<<<"Known Locations:">>>>
           \o LocationLines(SubSeq(c.locations, 1, Min(8, Len(c.locations))))
           \o <<<<>>>>
      ELSE <<>>)

\* _get_campaign_context(): empty without a manager or without a campaign
GetCampaignContext(cm, c) ==
  IF ~cm \/ ~c.some THEN <<>> ELSE CampaignContext(c.val)

\* the messages respond_stream builds: the campaign context, when there is
\* one, goes between the system prompt and the session context
InitialStreamMessages(s, cm, c) ==
  <<Message("system", Some(SystemPrompt), <<>>, <<>>)>>
  \o (IF GetCampaignContext(cm, c) # <<>>
      THEN <<Message("system",
                     Some(<<"Campaign Context:\n", GetCampaignContext(cm, c)>>),
                     <<>>, <<>>)>>
      ELSE <<>>)
  \o <<Message("system", Some(<<"Session context:\n", ContextForLLM(s)>>),
                <<>>, <<>>),
       Message("user", Some(PlayerMessage), <<>>, <<>>)>>

(***************************************************************************)
(* DMAgent.respond                                                         *)
(***************************************************************************)
harness == <<phase, env, palette, seed, first, probes>>
streamVars == <<output, accumulated_content, accumulated_tool_calls, chunks>>

\* log the player action, build the context and the messages
\* a respond that does not log the player's message
RespondStartLogsNothing ==
  /\ pc = "idle"
  /\ variant = "respond"
  /\ messages' = InitialMessages(session)
  /\ pc' = "awaiting"
  /\ UNCHANGED <<harness, variant, raised, response, i, modelCalls, rounds,
                 trace, session, rng, retval, streamVars, script>>

RespondStart ==
  /\ pc = "idle"
  /\ variant = "respond"
  /\ LET logged == SessionLogEvent(session, "player_action", PlayerMessage,
                                   "Player", <<>>)
     IN /\ session' = logged
        /\ messages' = InitialMessages(logged)
  /\ pc' = "awaiting"
  /\ UNCHANGED <<harness, variant, raised, response, i, modelCalls, rounds,
                 trace, rng, retval, streamVars, script>>

\* llm_client.chat(messages, ...) returns a response
Chat ==
  /\ pc = "awaiting"
  /\ \E r \in Reply(modelCalls + 1) :
       /\ response' = r
       /\ script' = IF env = "free" /\ modelCalls + 1 > Len(script)
                    THEN Append(script, r) ELSE script
  /\ modelCalls' = Inc(modelCalls)
  /\ pc' = "responded"
  /\ UNCHANGED <<harness, variant, raised, messages, i, rounds, trace,
                 session, rng, retval, streamVars>>

\* a loop that appends the assistant message before it tests for tool calls
LoopTestAppendsFirst ==
  /\ pc = "responded"
  /\ messages' =
       Push(messages,
            Message("assistant", Some(OrEmpty(response.content)),
                    [k \in 1..Len(response.tool_calls) |->
                       ModelDump(response.tool_calls[k])],
                    <<>>))
  /\ IF response.tool_calls # <<>>
     THEN /\ i' = 1
          /\ rounds' = Inc(rounds)
          /\ pc' = "executing"
          /\ UNCHANGED <<session, retval>>
     ELSE /\ session' = IF Truthy(response.content)
                        THEN SessionLogEvent(session, "narration",
                                             response.content.val, "DM", <<>>)
                        ELSE session
          /\ retval' = OrEmpty(response.content)
          /\ pc' = "done"
          /\ UNCHANGED <<i, rounds>>
  /\ UNCHANGED <<harness, variant, raised, response, modelCalls, trace, rng,
                 streamVars, script>>

\* `while response.tool_calls:` entered: append the assistant message;
\* left: log the narration and return the content
LoopTest ==
  /\ pc = "responded"
  /\ IF response.tool_calls # <<>>
     THEN /\ messages' =
               Push(messages,
                    Message("assistant", Some(OrEmpty(response.content)),
                            [k \in 1..Len(response.tool_calls) |->
                               ModelDump(response.tool_calls[k])],
                            <<>>))
          /\ i' = 1
          /\ rounds' = Inc(rounds)
          /\ pc' = "executing"
          /\ UNCHANGED <<session, retval>>
     ELSE /\ session' = IF Truthy(response.content)
                        THEN SessionLogEvent(session, "narration",
                                             response.content.val, "DM", <<>>)
                        ELSE session
          /\ retval' = OrEmpty(response.content)
          /\ pc' = "done"
          /\ UNCHANGED <<messages, i, rounds>>
  /\ UNCHANGED <<harness, variant, raised, response, modelCalls, trace, rng,
                 streamVars, script>>

\* a loop that executes the tool calls and appends no result message
ExecToolDropsResult ==
  /\ pc = "executing"
  /\ \E tc \in {response.tool_calls[i]} :
     \E r \in {ExecuteTool(tc.function.name, tc.function.arguments, session, rng)} :
        /\ trace' = Push(trace, Executed(tc, r))
        /\ session' = r.session
        /\ rng' = r.rng
        /\ messages' = messages
        /\ IF r.raised # "none"
           THEN /\ raised' = r.raised
                /\ pc' = "failed"
                /\ i' = i
           ELSE /\ raised' = raised
                /\ IF i < Len(response.tool_calls)
                   THEN i' = i + 1 /\ pc' = "executing"
                   ELSE i' = i /\ pc' = "awaiting"
  /\ UNCHANGED <<harness, variant, response, modelCalls, rounds, retval,
                 streamVars, script>>

\* one iteration of `for tool_call in response.tool_calls:`
ExecTool ==
  /\ pc = "executing"
  /\ \E tc \in {response.tool_calls[i]} :
     \E r \in {ExecuteTool(tc.function.name, tc.function.arguments, session, rng)} :
        /\ trace' = Push(trace, Executed(tc, r))
        /\ session' = r.session
        /\ rng' = r.rng
        /\ IF r.raised # "none"
           THEN /\ raised' = r.raised
                /\ pc' = "failed"
                /\ UNCHANGED <<messages, i>>
           ELSE /\ messages' = Push(messages,
                                    Message("tool", Some(r.result), <<>>, tc.id))
                /\ raised' = raised
                /\ IF i < Len(response.tool_calls)
                   THEN i' = i + 1 /\ pc' = "executing"
                   ELSE i' = i /\ pc' = "awaiting"
  /\ UNCHANGED <<harness, variant, response, modelCalls, rounds, retval,
                 streamVars, script>>

(***************************************************************************)
(* DMAgent.respond_stream                                                  *)
(***************************************************************************)
\* log the player action, build the context and the messages
StreamStart ==
  /\ pc = "idle"
  /\ variant = "respond_stream"
  /\ LET logged == SessionLogEvent(session, "player_action", PlayerMessage,
                                   "Player", <<>>)
     IN /\ session' = logged
        /\ messages' = InitialStreamMessages(logged, campaign_manager, campaign)
  /\ accumulated_content' = <<>>
  /\ accumulated_tool_calls' = <<>>
  /\ pc' = "s_awaiting1"
  /\ UNCHANGED <<harness, variant, raised, response, i, modelCalls, rounds,
                 trace, rng, retval, output, chunks, script>>

\* the first llm_client.chat_stream(messages, ...) call
ChatStream1 ==
  /\ pc = "s_awaiting1"
  /\ \E r \in Reply(modelCalls + 1) :
       /\ response' = r
       /\ chunks' = StreamOf(r)
       /\ script' = IF env = "free" /\ modelCalls + 1 > Len(script)
                    THEN Append(script, r) ELSE script
  /\ modelCalls' = Inc(modelCalls)
  /\ pc' = "s_reading1"
  /\ UNCHANGED <<harness, variant, raised, messages, i, rounds, trace,
                 session, rng, retval, output, accumulated_content,
                 accumulated_tool_calls>>

\* a first loop that keeps only the latest content delta
ReadChunk1Overwrites ==
  /\ pc = "s_reading1"
  /\ chunks # <<>>
  /\ LET chunk == Head(chunks)
     IN /\ IF Truthy(chunk.content)
           THEN /\ accumulated_content' = chunk.content.val
                /\ output' = Push(output, chunk.content.val)
           ELSE UNCHANGED <<accumulated_content, output>>
        /\ accumulated_tool_calls' =
             IF chunk.tool_calls # <<>>
             THEN accumulated_tool_calls \o chunk.tool_calls
             ELSE accumulated_tool_calls
        /\ IF chunk.finish_reason # "none"
           THEN chunks' = <<>> /\ pc' = "s_test"
           ELSE /\ chunks' = Tail(chunks)
                /\ pc' = IF Tail(chunks) = <<>> THEN "s_test" ELSE "s_reading1"
  /\ UNCHANGED <<harness, variant, raised, messages, response, i, modelCalls,
                 rounds, trace, session, rng, retval, script>>

\* one iteration of the first `for chunk in ...:` loop
ReadChunk1 ==
  /\ pc = "s_reading1"
  /\ chunks # <<>>
  /\ LET chunk == Head(chunks)
     IN /\ IF Truthy(chunk.content)
           THEN /\ accumulated_content' = accumulated_content \o chunk.content.val
                /\ output' = Push(output, chunk.content.val)
           ELSE UNCHANGED <<accumulated_content, output>>
        /\ accumulated_tool_calls' =
             IF chunk.tool_calls # <<>>
             THEN accumulated_tool_calls \o chunk.tool_calls
             ELSE accumulated_tool_calls
        /\ IF chunk.finish_reason # "none"
           THEN chunks' = <<>> /\ pc' = "s_test"
           ELSE /\ chunks' = Tail(chunks)
                /\ pc' = IF Tail(chunks) = <<>> THEN "s_test" ELSE "s_reading1"
  /\ UNCHANGED <<harness, variant, raised, messages, response, i, modelCalls,
                 rounds, trace, session, rng, retval, script>>

\* a narration event logged whether or not there is content
LogStreamNarrationAlways(s, content) ==
  SessionLogEvent(s, "narration", content, "DM", <<>>)

\* the narration event logged at the end of respond_stream
LogStreamNarration(s, content) ==
  IF content # <<>>
  THEN SessionLogEvent(s, "narration", content, "DM", <<>>)
  ELSE s

\* a test that puts the assistant message in the place of the user message
StreamTestReplacesUser ==
  /\ pc = "s_test"
  /\ IF accumulated_tool_calls # <<>>
     THEN /\ messages' =
               Append(SubSeq(messages, 1, Len(messages) - 1),
                      Message("assistant", OrNone(accumulated_content),
                              [k \in 1..Len(accumulated_tool_calls) |->
                                 ModelDump(accumulated_tool_calls[k])],
                              <<>>))
          /\ i' = 1
          /\ rounds' = Inc(rounds)
          /\ pc' = "s_executing"
          /\ UNCHANGED session
     ELSE /\ session' = LogStreamNarration(session, accumulated_content)
          /\ pc' = "done"
          /\ UNCHANGED <<messages, i, rounds>>
  /\ UNCHANGED <<harness, variant, raised, response, modelCalls, trace, rng,
                 retval, streamVars, script>>

\* `if accumulated_tool_calls:` taken: append the assistant message;
\* not taken: log the narration and finish
StreamTest ==
  /\ pc = "s_test"
  /\ IF accumulated_tool_calls # <<>>
     THEN /\ messages' =
               Push(messages,
                    Message("assistant", OrNone(accumulated_content),
                            [k \in 1..Len(accumulated_tool_calls) |->
                               ModelDump(accumulated_tool_calls[k])],
                            <<>>))
          /\ i' = 1
          /\ rounds' = Inc(rounds)
          /\ pc' = "s_executing"
          /\ UNCHANGED session
     ELSE /\ session' = LogStreamNarration(session, accumulated_content)
          /\ pc' = "done"
          /\ UNCHANGED <<messages, i, rounds>>
  /\ UNCHANGED <<harness, variant, raised, response, modelCalls, trace, rng,
                 retval, streamVars, script>>

\* a tool loop that yields nothing to the consumer
StreamExecToolSilent ==
  /\ pc = "s_executing"
  /\ \E tc \in {accumulated_tool_calls[i]} :
     \E r \in {ExecuteTool(tc.function.name, tc.function.arguments, session, rng)} :
        /\ trace' = Push(trace, Executed(tc, r))
        /\ session' = r.session
        /\ rng' = r.rng
        /\ output' = output
        /\ IF r.raised # "none"
           THEN /\ raised' = r.raised
                /\ pc' = "failed"
                /\ UNCHANGED <<messages, i>>
           ELSE /\ messages' = Push(messages,
                                    Message("tool", Some(r.result), <<>>, tc.id))
                /\ raised' = raised
                /\ IF i < Len(accumulated_tool_calls)
                   THEN i' = i + 1 /\ pc' = "s_executing"
                   ELSE i' = i /\ pc' = "s_awaiting2"
  /\ UNCHANGED <<harness, variant, response, modelCalls, rounds, retval,
                 accumulated_content, accumulated_tool_calls, chunks, script>>

\* one iteration of `for tool_call in accumulated_tool_calls:`
StreamExecTool ==
  /\ pc = "s_executing"
  /\ \E tc \in {accumulated_tool_calls[i]} :
     \E r \in {ExecuteTool(tc.function.name, tc.function.arguments, session, rng)} :
        /\ trace' = Push(trace, Executed(tc, r))
        /\ session' = r.session
        /\ rng' = r.rng
        /\ IF r.raised # "none"
           THEN /\ raised' = r.raised
                /\ pc' = "failed"
                /\ UNCHANGED <<messages, i, output>>
           ELSE /\ messages' = Push(messages,
                                    Message("tool", Some(r.result), <<>>, tc.id))
                /\ output' = Push(output, <<"\n[", tc.function.name, ": ",
                                            r.result, "]\n">>)
                /\ raised' = raised
                /\ IF i < Len(accumulated_tool_calls)
                   THEN i' = i + 1 /\ pc' = "s_executing"
                   ELSE i' = i /\ pc' = "s_awaiting2"
  /\ UNCHANGED <<harness, variant, response, modelCalls, rounds, retval,
                 accumulated_content, accumulated_tool_calls, chunks, script>>

\* the second llm_client.chat_stream(messages, ...) call
ChatStream2 ==
  /\ pc = "s_awaiting2"
  /\ \E r \in Reply(modelCalls + 1) :
       /\ response' = r
       /\ chunks' = StreamOf(r)
       /\ script' = IF env = "free" /\ modelCalls + 1 > Len(script)
                    THEN Append(script, r) ELSE script
  /\ accumulated_content' = <<>>
  /\ modelCalls' = Inc(modelCalls)
  /\ pc' = "s_reading2"
  /\ UNCHANGED <<harness, variant, raised, messages, i, rounds, trace,
                 session, rng, retval, output, accumulated_tool_calls>>

\* one iteration of the second `for chunk in ...:` loop
ReadChunk2 ==
  /\ pc = "s_reading2"
  /\ chunks # <<>>
  /\ LET chunk == Head(chunks)
     IN IF Truthy(chunk.content)
        THEN /\ accumulated_content' = accumulated_content \o chunk.content.val
             /\ output' = Push(output, chunk.content.val)
        ELSE UNCHANGED <<accumulated_content, output>>
  /\ chunks' = Tail(chunks)
  /\ UNCHANGED <<harness, variant, pc, raised, messages, response, i,
                 modelCalls, rounds, trace, session, rng, retval,
                 accumulated_tool_calls, script>>

\* an end of the second stream that goes back to the tool loop when the
\* second response carried tool calls
StreamFinishLoops ==
  /\ pc = "s_reading2"
  /\ chunks = <<>>
  /\ IF response.tool_calls # <<>>
     THEN /\ accumulated_tool_calls' = response.tool_calls
          /\ i' = 1
          /\ pc' = "s_executing"
          /\ UNCHANGED session
     ELSE /\ session' = LogStreamNarration(session, accumulated_content)
          /\ pc' = "done"
          /\ UNCHANGED <<accumulated_tool_calls, i>>
  /\ UNCHANGED <<harness, variant, raised, messages, response, modelCalls,
                 rounds, trace, rng, retval, output, accumulated_content,
                 chunks, script>>

\* the second stream is exhausted: log the narration and finish
StreamFinish ==
  /\ pc = "s_reading2"
  /\ chunks = <<>>
  /\ session' = LogStreamNarration(session, accumulated_content)
  /\ pc' = "done"
  /\ UNCHANGED <<harness, variant, raised, messages, response, i, modelCalls,
                 rounds, trace, rng, retval, streamVars, script>>

(***************************************************************************)
(* The same turn through the other method                                  *)
(***************************************************************************)
Other(v) == IF v = "respond" THEN "respond_stream" ELSE "respond"

\* once the turn is over, a second agent, built the same way, runs it
\* through the other method against the same responses
Replay ==
  /\ phase = 1
  /\ pc \in {"done", "failed"}
  /\ first' = [variant |-> variant, pc |-> pc, raised |-> raised,
               modelCalls |-> modelCalls, trace |-> trace,
               session |-> session, rng |-> rng]
  /\ phase' = 2
  /\ FreshAgent(Other(variant), seed)
  /\ UNCHANGED <<env, palette, seed, script, probes>>

Next ==
  \/ RespondStart
  \/ Chat
  \/ LoopTest
  \/ ExecTool
  \/ StreamStart
  \/ ChatStream1
  \/ ReadChunk1
  \/ StreamTest
  \/ StreamExecTool
  \/ ChatStream2
  \/ ReadChunk2
  \/ StreamFinish
  \/ Replay

Spec == Init /\ [][Next]_vars

\* the method always takes its next step
SpecLoop == InitLoop /\ [][Next]_vars /\ WF_vars(Next)

(***************************************************************************)
(* A turn against a provider whose calls may fail                          *)
(***************************************************************************)
\* what the script records for a model call that failed (an API or
\* transport error raised by the provider's client)
UpstreamFailure(content) ==
  [content |-> content, tool_calls |-> <<>>, error |-> "APIError"]

\* the turn is run by either method; the language model answers freely
\* with the scene and event tool calls of the catalogue and a tool it does
\* not know, and any of its calls may fail
InitUpstream ==
  /\ phase = 1
  /\ env = "free"
  /\ palette = {c \in 1..Len(Catalogue) :
                  Catalogue[c].name \in {"start_scene", "end_scene",
                                         "log_event", "unknown_tool"}}
  /\ seed \in Seeds
  /\ script = <<>>
  /\ first = NoRun
  /\ InitProbes
  /\ \E v \in {"respond", "respond_stream"} : InitAgent(v, seed)

\* a chat that reports the failure as an empty narration
ChatFailsSwallowed ==
  /\ pc = "awaiting"
  /\ script' = Append(script, UpstreamFailure(None))
  /\ modelCalls' = Inc(modelCalls)
  /\ retval' = <<>>
  /\ pc' = "done"
  /\ UNCHANGED <<harness, variant, raised, messages, response, i, rounds,
                 trace, session, rng, streamVars>>

\* llm_client.chat(messages, ...) raises: LLMClient.chat catches nothing
\* and neither does respond, so the exception leaves respond
ChatFails ==
  /\ pc = "awaiting"
  /\ script' = Append(script, UpstreamFailure(None))
  /\ modelCalls' = Inc(modelCalls)
  /\ raised' = "APIError"
  /\ pc' = "failed"
  /\ UNCHANGED <<harness, variant, messages, response, i, rounds, trace,
                 session, rng, retval, streamVars>>

\* the stream of llm_client.chat_stream raises, at its first chunk (the
\* request is made when the generator is first advanced) or at a later
\* one: chat_stream catches nothing and neither does respond_stream
StreamFails ==
  /\ pc \in {"s_reading1", "s_reading2"}
  /\ chunks # <<>>
  /\ script' = [script EXCEPT ![Len(script)] = UpstreamFailure(@.content)]
  /\ raised' = "APIError"
  /\ pc' = "failed"
  /\ UNCHANGED <<harness, variant, messages, response, i, modelCalls, rounds,
                 trace, session, rng, retval, streamVars>>

NextUpstream ==
  \/ RespondStart
  \/ Chat
  \/ LoopTest
  \/ ExecTool
  \/ StreamStart
  \/ ChatStream1
  \/ ReadChunk1
  \/ StreamTest
  \/ StreamExecTool
  \/ ChatStream2
  \/ ReadChunk2
  \/ StreamFinish
  \/ ChatFails
  \/ StreamFails

SpecUpstream == InitUpstream /\ [][NextUpstream]_vars

(***************************************************************************)
(* A streamed turn whose consumer may stop consuming                       *)
(***************************************************************************)
\* the turn is run by respond_stream; the language model answers freely
\* with the scene and event tool calls of the catalogue
InitAbandon ==
  /\ phase = 1
  /\ env = "free"
  /\ palette = {c \in 1..Len(Catalogue) :
                  Catalogue[c].name \in {"start_scene", "end_scene", "log_event"}}
  /\ seed \in Seeds
  /\ script = <<>>
  /\ first = NoRun
  /\ InitProbes
  /\ InitAgent("respond_stream", seed)

\* an abandonment that undoes what the turn did to the session
AbandonRollsBack ==
  /\ variant = "respond_stream"
  /\ pc \in {"s_reading1", "s_test", "s_executing", "s_awaiting2", "s_reading2"}
  /\ output # <<>>
  /\ session' = NewSession
  /\ pc' = "abandoned"
  /\ UNCHANGED <<harness, variant, raised, messages, response, i, modelCalls,
                 rounds, trace, rng, retval, streamVars, script>>

\* the consumer, having taken at least one item, takes no more: the
\* generator stays suspended at its last yield (or is closed there); it has
\* no try/finally, so nothing of it runs again
Abandon ==
  /\ variant = "respond_stream"
  /\ pc \in {"s_reading1", "s_test", "s_executing", "s_awaiting2", "s_reading2"}
  /\ output # <<>>
  /\ pc' = "abandoned"
  /\ UNCHANGED <<harness, variant, raised, messages, response, i, modelCalls,
                 rounds, trace, session, rng, retval, streamVars, script>>

NextAbandon ==
  \/ StreamStart
  \/ ChatStream1
  \/ ReadChunk1
  \/ StreamTest
  \/ StreamExecTool
  \/ ChatStream2
  \/ ReadChunk2
  \/ StreamFinish
  \/ Abandon

SpecAbandon == InitAbandon /\ [][NextAbandon]_vars

(***************************************************************************)
(* _execute_tool and get_tools called directly, as the tests call them     *)
(***************************************************************************)
\* the calls of _execute_tool a test may make: the calls of the catalogue,
\* end_scene without a summary and with an empty one, and more rolls
DirectCalls == Catalogue \o <<
  [name |-> "end_scene", arguments |-> <<>>],
  [name |-> "end_scene", arguments |-> [summary |-> <<>>]],
  [name |-> "roll_dice",
   arguments |-> [notation |-> <<"d", "2", "0">>, purpose |-> "Attack roll",
                  roll_type |-> "normal"]],
  [name |-> "roll_dice",
   arguments |-> [notation |-> <<"2", "d", "6", "-", "3">>, purpose |-> "Damage"]],
  [name |-> "roll_dice",
   arguments |-> [notation |-> <<"4", "d", "6", "k", "h", "3">>,
                  purpose |-> "Ability score"]],
  [name |-> "roll_dice",
   arguments |-> [notation |-> <<"3", "D", "6", "K", "L", "2">>,
                  purpose |-> "Fumble", roll_type |-> "normal"]],
  [name |-> "roll_dice",
   arguments |-> [notation |-> <<"d", "2", "0">>, purpose |-> "Perception check",
                  roll_type |-> "advantage"]],
  [name |-> "roll_dice",
   arguments |-> [notation |-> <<"2", "d", "6", "-", "3">>, purpose |-> "Damage",
                  roll_type |-> "disadvantage"]],
  [name |-> "roll_dice",
   arguments |-> [notation |-> <<"4", "d", "6", "k", "h", "3">>,
                  purpose |-> "Ability score", roll_type |-> "advantage"]],
  [name |-> "roll_dice",
   arguments |-> [notation |-> <<"d", "2", "5">>, purpose |-> "Random table",
                  roll_type |-> "normal"]],
  [name |-> "roll_dice",
   arguments |-> [notation |-> <<"3", "D", "6", "K", "L", "2">>,
                  purpose |-> "Fumble", roll_type |-> "disadvantage"]]
>>

\* the tools declared in the list that get_tools returns at line 95
BaseTools == <<"roll_dice", "start_scene", "end_scene", "log_event">>

\* the tools declared in `campaign_tools` (lines 199-284)
CampaignTools ==
  <<"track_npc", "track_location", "add_plot_thread", "update_plot_thread">>

\* get_tools: the `return [...]` of line 95 ends the method with the base
\* tools; the `if self.campaign_manager:` block that follows it (lines
\* 197-287) is never reached
GetTools(cm) == BaseTools

\* the tool names for which _execute_tool takes a handler branch
HandledTools(cm) ==
  RegisteredTools \cup
    (IF cm THEN {CampaignTools[k] : k \in 1..Len(CampaignTools)} ELSE {})

\* a test builds an agent, with or without campaign manager, and calls its
\* methods directly; the calls made here name no campaign tool, so they run
\* the same with and without a campaign manager
InitTools ==
  /\ phase = 1
  /\ env = "direct"
  /\ palette = {}
  /\ seed \in Seeds
  /\ script = <<>>
  /\ first = NoRun
  /\ campaign_manager \in BOOLEAN
  /\ last_call = NoCall
  /\ agent_tools = <<>>
  /\ provider_chunks = <<>>
  /\ tool_call_accumulator = <<>>
  /\ yielded = <<>>
  /\ client_pc = "off"
  /\ roll = NoRoll
  /\ campaign = None
  /\ campaign_file = None
  /\ manager_call = NoManagerCall
  /\ InitAgent("direct", seed)

agentVars == <<variant, pc, raised, messages, response, i, modelCalls, rounds,
               retval, streamVars, script>>

\* dm_agent._execute_tool(name, arguments) called by a test; an exception
\* reaches the test, which goes on
DirectCall ==
  /\ variant = "direct"
  /\ Len(trace) < MaxDirectCalls
  /\ \E c \in 1..Len(DirectCalls) :
     \E r \in {ExecuteTool(DirectCalls[c].name, DirectCalls[c].arguments,
                           session, rng)} :
        /\ last_call' = [name |-> DirectCalls[c].name,
                         arguments |-> DirectCalls[c].arguments,
                         session |-> session, rng |-> rng, r |-> r]
        /\ trace' = Append(trace, [name |-> DirectCalls[c].name,
                                   arguments |-> DirectCalls[c].arguments,
                                   id |-> <<0, Len(trace) + 1>>,
                                   raised |-> r.raised])
        /\ session' = r.session
        /\ rng' = r.rng
  /\ UNCHANGED <<phase, env, palette, seed, first, campaign_manager,
                 agent_tools, clientVars, roll, managerVars, agentVars>>

\* dm_agent.get_tools() called by a test
GetToolsCall ==
  /\ variant = "direct"
  /\ agent_tools' = GetTools(campaign_manager)
  /\ UNCHANGED <<phase, env, palette, seed, first, campaign_manager,
                 last_call, clientVars, roll, managerVars, trace, session, rng,
                 agentVars>>

NextTools == DirectCall \/ GetToolsCall

SpecTools == InitTools /\ [][NextTools]_vars

(***************************************************************************)
(* respond_stream alone, scheduled fairly: the consumer takes every item   *)
(* and both model streams are finite                                       *)
(***************************************************************************)
\* the language model answers as it likes, with scene starts (one of them
\* without a title) and a tool the agent does not know, in its first and in
\* its second response
InitStream ==
  /\ phase = 1
  /\ env = "free"
  /\ palette = {c \in 1..Len(Catalogue) :
                  Catalogue[c].name \in {"start_scene", "unknown_tool"}}
  /\ seed \in Seeds
  /\ script = <<>>
  /\ first = NoRun
  /\ InitProbes
  /\ InitAgent("respond_stream", seed)

NextStream ==
  \/ StreamStart
  \/ ChatStream1
  \/ ReadChunk1
  \/ StreamTest
  \/ StreamExecTool
  \/ ChatStream2
  \/ ReadChunk2
  \/ StreamFinish

SpecStream == InitStream /\ [][NextStream]_vars /\ WF_vars(NextStream)

(***************************************************************************)
(* The dice roller called directly, with every seed of the random source   *)
(***************************************************************************)
\* the states of the seeded random source
DiceSeeds == 0..15

\* notations the roller is given: plain, with a positive and a negative
\* modifier, with keep clauses (fewer dice than rolled, as many as rolled,
\* one die), in upper case, and three that parse() rejects
DiceNotations ==
  << <<"d", "2", "0">>,
     <<"2", "d", "6", "+", "3">>,
     <<"2", "d", "6", "-", "3">>,
     <<"1", "d", "4", "-", "5">>,
     <<"4", "d", "6", "k", "h", "3">>,
     <<"3", "D", "6", "K", "L", "2">>,
     <<"3", "d", "4", "k", "h", "3", "-", "2">>,
     <<"4", "d", "6", "k", "l", "1", "+", "1">>,
     <<"2", "d", "6", "k", "h", "3">>,
     <<"d", "0">>,
     <<"2", "d", "6", "+">>,
     <<"3", "d", "7">>,
     <<"d", "2", "5">>,
     <<"2", "d", "6", "k", "h", "5">>,
     <<"0", "d", "6">>,
     <<"a", "b", "c">>,
     <<>> >>

RollModes == {"normal", "advantage", "disadvantage"}

InitDice ==
  /\ phase = 1
  /\ env = "roller"
  /\ palette = {}
  /\ seed \in DiceSeeds
  /\ script = <<>>
  /\ first = NoRun
  /\ InitProbes
  /\ InitAgent("dice", seed)

\* roller.roll(notation), roller.advantage(notation) or
\* roller.disadvantage(notation) on a roller in any state of its source
RollerCall ==
  /\ variant = "dice"
  /\ \E n \in 1..Len(DiceNotations) :
     \E mode \in RollModes :
     \E r \in {IF mode = "normal" THEN DiceRoll(rng, DiceNotations[n])
                ELSE DiceRollTwice(rng, DiceNotations[n], mode)} :
        /\ roll' = [notation |-> DiceNotations[n], mode |-> mode,
                    rng |-> rng, r |-> r]
        /\ rng' = r.rng
  /\ UNCHANGED <<phase, env, palette, seed, first, campaign_manager,
                 last_call, agent_tools, clientVars, managerVars, trace, session,
                 agentVars>>

NextDice == RollerCall

SpecDice == InitDice /\ [][NextDice]_vars

(***************************************************************************)
(* CampaignManager (campaign/campaign_manager.py) and Campaign             *)
(* (campaign/models.py): the campaign in memory and the campaign file      *)
(***************************************************************************)
ManagerCampaignId == <<"test_campaign">>
CampaignNames == {<<"Lost Mines">>, <<"Curse of the Vale">>}
CampaignSetting == <<"A frontier town">>
CampaignGoals == {None, Some(<<"Find the lost mine">>)}
SessionIds == {<<"session_1">>, <<"session_2">>, <<"session_3">>, <<"session_4">>}
StartDate == <<"2026-01-01T10:00:00">>

\* datetime.isoformat() and datetime.fromisoformat()
IsoFormat(d) == [isoformat |-> d]
FromIsoFormat(t) == t.isoformat

\* Campaign(campaign_id=..., name=..., setting=..., overarching_goal=...)
NewCampaign(name, setting, goal) ==
  [campaign_id |-> ManagerCampaignId, name |-> name, setting |-> setting,
   overarching_goal |-> goal, start_date |-> StartDate, npcs |-> <<>>,
   locations |-> <<>>, plot_threads |-> <<>>, sessions |-> <<>>,
   metadata |-> <<>>]

\* Campaign.add_session
CampaignAddSession(c, sid) ==
  IF \E k \in 1..Len(c.sessions) : c.sessions[k] = sid THEN c
  ELSE [c EXCEPT !.sessions = Append(@, sid)]

\* Campaign.get_plot_threads_by_status
PlotThreadsByStatus(c, status) ==
  LET Has(pt) == pt.status = status IN SelectSeq(c.plot_threads, Has)

\* PlotStatus: `status.value` and PlotStatus(value)
PlotStatusValues == {"active", "completed", "abandoned", "on_hold"}
StatusValue(status) == [value |-> status]
PlotStatusOf(v) == v.value

\* PlotUpdate.to_dict and PlotUpdate.from_dict
RECURSIVE UpdatesToDict(_)
UpdatesToDict(us) ==
  IF us = <<>> THEN <<>>
  ELSE <<[Head(us) EXCEPT !.timestamp = IsoFormat(@)]>>
       \o UpdatesToDict(Tail(us))
RECURSIVE UpdatesFromDict(_)
UpdatesFromDict(ds) ==
  IF ds = <<>> THEN <<>>
  ELSE <<[Head(ds) EXCEPT !.timestamp = FromIsoFormat(@)]>>
       \o UpdatesFromDict(Tail(ds))

\* PlotThread.to_dict and PlotThread.from_dict, over plot_threads
RECURSIVE PlotThreadsToDict(_)
PlotThreadsToDict(pts) ==
  IF pts = <<>> THEN <<>>
  ELSE <<[Head(pts) EXCEPT !.status = StatusValue(@),
                           !.created_at = IsoFormat(@),
                           !.updates = UpdatesToDict(@)]>>
       \o PlotThreadsToDict(Tail(pts))
\* a from_dict that restores the plot threads without their updates
RECURSIVE PlotThreadsFromDictNoUpdates(_)
PlotThreadsFromDictNoUpdates(ds) ==
  IF ds = <<>> THEN <<>>
  ELSE <<[Head(ds) EXCEPT !.status = PlotStatusOf(@),
                          !.created_at = FromIsoFormat(@),
                          !.updates = <<>>]>>
       \o PlotThreadsFromDictNoUpdates(Tail(ds))

RECURSIVE PlotThreadsFromDict(_)
PlotThreadsFromDict(ds) ==
  IF ds = <<>> THEN <<>>
  ELSE <<[Head(ds) EXCEPT !.status = PlotStatusOf(@),
                          !.created_at = FromIsoFormat(@),
                          !.updates = UpdatesFromDict(@)]>>
       \o PlotThreadsFromDict(Tail(ds))

\* Campaign.to_dict and Campaign.from_dict; NPCProfile and Location are
\* written and read field by field, with no conversion
CampaignToDict(c) ==
  [c EXCEPT !.start_date = IsoFormat(@),
            !.plot_threads = PlotThreadsToDict(@)]
CampaignFromDict(data) ==
  [data EXCEPT !.start_date = FromIsoFormat(@),
               !.plot_threads = PlotThreadsFromDict(@)]

\* the dictionary get_summary returns
CampaignSummary(c) ==
  [campaign_id |-> c.campaign_id, name |-> c.name, setting |-> c.setting,
   overarching_goal |-> c.overarching_goal,
   start_date |-> IsoFormat(c.start_date),
   npc_count |-> Len(c.npcs), location_count |-> Len(c.locations),
   active_plot_count |-> Len(PlotThreadsByStatus(c, "active")),
   completed_plot_count |-> Len(PlotThreadsByStatus(c, "completed")),
   session_count |-> Len(c.sessions), sessions |-> c.sessions]

\* what a manager call did: the state before it and its outcome
ManagerCalled(op, exc, result) ==
  [op |-> op, raised |-> exc, result |-> result, campaign |-> campaign,
   campaign_file |-> campaign_file]

\* a manager built for a campaign id whose file may exist already
InitManager ==
  /\ phase = 1
  /\ env = "manager"
  /\ palette = {}
  /\ seed \in Seeds
  /\ script = <<>>
  /\ first = NoRun
  /\ campaign_manager = TRUE
  /\ last_call = NoCall
  /\ agent_tools = <<>>
  /\ provider_chunks = <<>>
  /\ tool_call_accumulator = <<>>
  /\ yielded = <<>>
  /\ client_pc = "off"
  /\ roll = NoRoll
  /\ campaign = None
  /\ campaign_file \in
       {None} \cup {Some(CampaignToDict(NewCampaign(n, CampaignSetting, None))) :
                     n \in CampaignNames}
  /\ manager_call = NoManagerCall
  /\ InitAgent("manager", seed)

notManager == <<phase, env, palette, seed, first, campaign_manager, last_call,
                agent_tools, clientVars, roll, trace, session, rng, agentVars>>

\* create_campaign(name, setting, overarching_goal): the new campaign is
\* saved at once
ManagerCreateCampaign ==
  /\ variant = "manager"
  /\ \E n \in CampaignNames :
     \E g \in CampaignGoals :
     \E c \in {NewCampaign(n, CampaignSetting, g)} :
        /\ campaign' = Some(c)
        /\ campaign_file' = Some(CampaignToDict(c))
        /\ manager_call' = ManagerCalled("create_campaign", "none", c)
  /\ UNCHANGED notManager

\* load(): FileNotFoundError without a campaign file
ManagerLoad ==
  /\ variant = "manager"
  /\ IF ~campaign_file.some
     THEN /\ manager_call' = ManagerCalled("load", "FileNotFoundError", <<>>)
          /\ UNCHANGED campaign
     ELSE /\ campaign' = Some(CampaignFromDict(campaign_file.val))
          /\ manager_call' = ManagerCalled("load", "none",
                                           CampaignFromDict(campaign_file.val))
  /\ UNCHANGED <<campaign_file, notManager>>

\* a save() that opens the campaign file for writing before it looks at
\* the campaign
ManagerSaveOpensFirst ==
  /\ variant = "manager"
  /\ IF ~campaign.some
     THEN /\ manager_call' = ManagerCalled("save", "ValueError", <<>>)
          /\ campaign_file' = Some(<<>>)
     ELSE /\ campaign_file' = Some(CampaignToDict(campaign.val))
          /\ manager_call' = ManagerCalled("save", "none", <<>>)
  /\ UNCHANGED <<campaign, notManager>>

\* save(): ValueError without a campaign, else the file is rewritten
ManagerSave ==
  /\ variant = "manager"
  /\ IF ~campaign.some
     THEN /\ manager_call' = ManagerCalled("save", "ValueError", <<>>)
          /\ UNCHANGED campaign_file
     ELSE /\ campaign_file' = Some(CampaignToDict(campaign.val))
          /\ manager_call' = ManagerCalled("save", "none", <<>>)
  /\ UNCHANGED <<campaign, notManager>>

\* get_summary(): ValueError without a campaign
ManagerGetSummary ==
  /\ variant = "manager"
  /\ manager_call' =
       IF ~campaign.some THEN ManagerCalled("get_summary", "ValueError", <<>>)
       ELSE ManagerCalled("get_summary", "none", CampaignSummary(campaign.val))
  /\ UNCHANGED <<campaign, campaign_file, notManager>>

\* manager.campaign.add_session(session_id), in memory only
ManagerAddSession ==
  /\ variant = "manager"
  /\ campaign.some
  /\ Len(campaign.val.sessions) < MaxSessions
  /\ \E sid \in SessionIds :
       /\ campaign' = Some(CampaignAddSession(campaign.val, sid))
       /\ manager_call' = ManagerCalled("add_session", "none", <<>>)
  /\ UNCHANGED <<campaign_file, notManager>>

NextManager ==
  \/ ManagerCreateCampaign
  \/ ManagerLoad
  \/ ManagerSave
  \/ ManagerGetSummary
  \/ ManagerAddSession

SpecManager == InitManager /\ [][NextManager]_vars

(***************************************************************************)
(* The campaign tools of DMAgent._execute_tool (track_npc, track_location, *)
(* add_plot_thread, update_plot_thread) and load_from_template.            *)
(* Campaign.npcs and Campaign.locations are dicts keyed by name: here the  *)
(* sequence of their values in insertion order.                            *)
(***************************************************************************)
\* datetime.now() where a plot thread or an update is created
Now == <<"2026-01-02T09:30:00.250000">>

\* f"plot_{n:03d}"
PlotId(n) == <<"plot_", n>>

\* the position of the first entry whose `field` is `value`, 0 if none:
\* dict.get(name) over a dict's values, next(pt for pt in ... if ...)
RECURSIVE FirstWith(_, _, _)
FirstWith(entries, field, value) ==
  IF entries = <<>> THEN 0
  ELSE IF Head(entries)[field] = value THEN 1
  ELSE IF FirstWith(Tail(entries), field, value) = 0 THEN 0
  ELSE 1 + FirstWith(Tail(entries), field, value)

\* NPCProfile.add_knowledge, once per item of `items`
RECURSIVE AddKnowledge(_, _)
AddKnowledge(knowledge, items) ==
  IF items = <<>> THEN knowledge
  ELSE AddKnowledge(IF \E k \in 1..Len(knowledge) : knowledge[k] = Head(items)
                    THEN knowledge ELSE Append(knowledge, Head(items)),
                    Tail(items))

\* the outcome of _execute_tool with the campaign and the file it leaves
CampaignToolReturn(result, c, file, slog, rst) ==
  [raised |-> "none", result |-> result, session |-> slog, rng |-> rst,
   campaign |-> c, campaign_file |-> file]
CampaignToolRaise(exc, c, file, slog, rst) ==
  [raised |-> exc, result |-> <<>>, session |-> slog, rng |-> rst,
   campaign |-> c, campaign_file |-> file]

\* campaign_manager.save() at the end of a handler, then its return
SavedReturn(result, c, slog, rst) ==
  CampaignToolReturn(result, Some(c), Some(CampaignToDict(c)), slog, rst)

\* NPCProfile(name=..., ...) as track_npc builds it
NewNpc(arguments, sid) ==
  [name |-> arguments.name, description |-> arguments.description,
   role |-> ArgGet(arguments, "role"),
   knowledge |-> IF "knowledge" \in DOMAIN arguments
                 THEN arguments.knowledge ELSE <<>>,
   relationships |-> <<>>,
   last_seen_location |-> ArgGet(arguments, "location"),
   last_seen_session |-> Some(sid), first_appeared_session |-> Some(sid),
   notes |-> <<>>, metadata |-> <<>>]

\* the `if npc:` branch of track_npc
UpdatedNpc(npc, arguments, sid) ==
  [npc EXCEPT
     !.description = arguments.description,
     !.role = IF Truthy(ArgGet(arguments, "role"))
              THEN ArgGet(arguments, "role") ELSE @,
     !.knowledge = AddKnowledge(@, IF "knowledge" \in DOMAIN arguments
                                   THEN arguments.knowledge ELSE <<>>),
     !.last_seen_location = IF Truthy(ArgGet(arguments, "location"))
                            THEN ArgGet(arguments, "location") ELSE @,
     !.last_seen_session = IF Truthy(ArgGet(arguments, "location"))
                           THEN Some(sid) ELSE @]

\* track_npc on a campaign
TrackNpc(c, arguments, sid) ==
  IF FirstWith(c.npcs, "name", arguments.name) # 0
  THEN [c EXCEPT !.npcs[FirstWith(c.npcs, "name", arguments.name)] =
                    UpdatedNpc(@, arguments, sid)]
  ELSE [c EXCEPT !.npcs = Append(@, NewNpc(arguments, sid))]

ExecTrackNpc(arguments, c, file, slog, rst) ==
  IF "name" \notin DOMAIN arguments \/ "description" \notin DOMAIN arguments
  THEN CampaignToolRaise("KeyError", c, file, slog, rst)
  ELSE IF ~c.some
  THEN CampaignToolRaise("AttributeError", c, file, slog, rst)
  ELSE SavedReturn(<<"Tracked NPC '", arguments.name, "' in campaign">>,
                   TrackNpc(c.val, arguments, slog.session_id),
                   slog, rst)

\* track_location on a campaign
TrackLocation(c, arguments, sid) ==
  IF FirstWith(c.locations, "name", arguments.name) # 0
  THEN [c EXCEPT !.locations[FirstWith(c.locations, "name", arguments.name)] =
          [@ EXCEPT !.description = arguments.description,
                    !.notable_events =
                       IF Truthy(ArgGet(arguments, "event"))
                       THEN Append(@, arguments.event) ELSE @,
                    !.last_visited_session = Some(sid)]]
  ELSE [c EXCEPT !.locations = Append(@,
          [name |-> arguments.name, description |-> arguments.description,
           notable_events |-> IF Truthy(ArgGet(arguments, "event"))
                              THEN <<arguments.event>> ELSE <<>>,
           npcs_present |-> <<>>, first_visited_session |-> Some(sid),
           last_visited_session |-> Some(sid), notes |-> <<>>,
           metadata |-> <<>>])]

ExecTrackLocation(arguments, c, file, slog, rst) ==
  IF "name" \notin DOMAIN arguments \/ "description" \notin DOMAIN arguments
  THEN CampaignToolRaise("KeyError", c, file, slog, rst)
  ELSE IF ~c.some
  THEN CampaignToolRaise("AttributeError", c, file, slog, rst)
  ELSE SavedReturn(<<"Tracked location '", arguments.name, "' in campaign">>,
                   TrackLocation(c.val, arguments, slog.session_id),
                   slog, rst)

\* PlotThread(id=..., ...) with the defaults of the model class
NewPlotThread(id, title, description, status, npcs, locations, sid) ==
  [id |-> id, title |-> title, description |-> description,
   status |-> status, related_npcs |-> npcs,
   related_locations |-> locations, created_in_session |-> sid,
   created_at |-> Now, updates |-> <<>>, metadata |-> <<>>]

\* an add_plot_thread that gives every plot thread the id plot_001
AddPlotThreadSameId(c, arguments, sid) ==
  [c EXCEPT !.plot_threads = Append(@,
     NewPlotThread(PlotId(1), arguments.title, arguments.description,
                   "active",
                   IF "related_npcs" \in DOMAIN arguments
                   THEN arguments.related_npcs ELSE <<>>,
                   <<>>, sid))]

\* add_plot_thread on a campaign: the id counts the plot threads
AddPlotThread(c, arguments, sid) ==
  [c EXCEPT !.plot_threads = Append(@,
     NewPlotThread(PlotId(Len(c.plot_threads) + 1), arguments.title,
                   arguments.description, "active",
                   IF "related_npcs" \in DOMAIN arguments
                   THEN arguments.related_npcs ELSE <<>>,
                   <<>>, sid))]

ExecAddPlotThread(arguments, c, file, slog, rst) ==
  IF "title" \notin DOMAIN arguments \/ "description" \notin DOMAIN arguments
  THEN CampaignToolRaise("KeyError", c, file, slog, rst)
  ELSE IF ~c.some
  THEN CampaignToolRaise("AttributeError", c, file, slog, rst)
  ELSE SavedReturn(<<"Added new plot thread: '", arguments.title, "'">>,
                   AddPlotThread(c.val, arguments, slog.session_id),
                   slog, rst)

\* PlotThread.add_update on the plot thread at position p
WithUpdate(c, p, sid, description) ==
  [c EXCEPT !.plot_threads[p].updates =
     Append(@, [timestamp |-> Now, session_id |-> sid,
                description |-> description, metadata |-> <<>>])]

\* update_plot_thread once the plot thread is found at position p: the
\* update is appended, then `PlotStatus(status)` is evaluated, which raises
\* ValueError for a value that is no status, then the campaign is saved
UpdateFound(c, p, arguments, file, slog, rst) ==
  IF "status" \notin DOMAIN arguments \/ arguments.status = ""
  THEN SavedReturn(<<"Updated plot thread '", arguments.title, "': ",
                     arguments.update>>,
                   WithUpdate(c, p, slog.session_id, arguments.update),
                   slog, rst)
  ELSE IF arguments.status \notin PlotStatusValues
  THEN CampaignToolRaise("ValueError",
         Some(WithUpdate(c, p, slog.session_id, arguments.update)),
         file, slog, rst)
  ELSE SavedReturn(<<"Updated plot thread '", arguments.title, "': ",
                     arguments.update>>,
                   [WithUpdate(c, p, slog.session_id, arguments.update)
                      EXCEPT !.plot_threads[p].status = arguments.status],
                   slog, rst)

ExecUpdatePlotThread(arguments, c, file, slog, rst) ==
  IF "title" \notin DOMAIN arguments \/ "update" \notin DOMAIN arguments
  THEN CampaignToolRaise("KeyError", c, file, slog, rst)
  ELSE IF ~c.some
  THEN CampaignToolRaise("AttributeError", c, file, slog, rst)
  ELSE IF FirstWith(c.val.plot_threads, "title", arguments.title) = 0
  THEN CampaignToolReturn(<<"Plot thread '", arguments.title, "' not found">>,
                          c, file, slog, rst)
  ELSE UpdateFound(c.val, FirstWith(c.val.plot_threads, "title", arguments.title),
                   arguments, file, slog, rst)

\* the tools without a campaign branch, or every tool when the agent has
\* no campaign manager
ExecBaseTool(tool_name, arguments, c, file, slog, rst) ==
  LET r == ExecuteTool(tool_name, arguments, slog, rst)
  IN [raised |-> r.raised, result |-> r.result, session |-> r.session,
      rng |-> r.rng, campaign |-> c, campaign_file |-> file]

\* a dispatch that takes the campaign branches without a campaign manager
ExecuteToolIgnoresManager(tool_name, arguments, cm, c, file, slog, rst) ==
  IF tool_name = "track_npc"
  THEN ExecTrackNpc(arguments, c, file, slog, rst)
  ELSE IF tool_name = "track_location"
  THEN ExecTrackLocation(arguments, c, file, slog, rst)
  ELSE IF tool_name = "add_plot_thread"
  THEN ExecAddPlotThread(arguments, c, file, slog, rst)
  ELSE IF tool_name = "update_plot_thread"
  THEN ExecUpdatePlotThread(arguments, c, file, slog, rst)
  ELSE ExecBaseTool(tool_name, arguments, c, file, slog, rst)

\* _execute_tool of an agent whose campaign manager (cm: there is one)
\* holds the campaign c and the campaign file `file`
ExecuteToolWithCampaign(tool_name, arguments, cm, c, file, slog, rst) ==
  IF tool_name = "track_npc" /\ cm
  THEN ExecTrackNpc(arguments, c, file, slog, rst)
  ELSE IF tool_name = "track_location" /\ cm
  THEN ExecTrackLocation(arguments, c, file, slog, rst)
  ELSE IF tool_name = "add_plot_thread" /\ cm
  THEN ExecAddPlotThread(arguments, c, file, slog, rst)
  ELSE IF tool_name = "update_plot_thread" /\ cm
  THEN ExecUpdatePlotThread(arguments, c, file, slog, rst)
  ELSE ExecBaseTool(tool_name, arguments, c, file, slog, rst)

\* a campaign template file (campaign_templates/*.json): one NPC without
\* a role, one location and two plot threads, the second without a status
Template ==
  [name |-> <<"Lost Mines">>, setting |-> <<"A frontier town">>,
   overarching_goal |-> <<"Find the lost mine">>,
   npcs |-> <<[name |-> <<"Gundren">>, description |-> <<"A dwarf merchant">>,
               knowledge |-> <<<<"mine location">>>>]>>,
   locations |-> <<[name |-> <<"Phandalin">>,
                    description |-> <<"A frontier town">>]>>,
   plot_threads |-> <<[title |-> <<"The Black Spider">>,
                       description |-> <<"Who is the Black Spider?">>,
                       status |-> "on_hold"],
                      [title |-> <<"Rescue Gundren">>,
                       description |-> <<"Gundren is missing">>]>>]

\* the NPCs, locations and plot threads load_from_template builds
RECURSIVE TemplateNpcs(_)
TemplateNpcs(ds) ==
  IF ds = <<>> THEN <<>>
  ELSE <<[name |-> Head(ds).name, description |-> Head(ds).description,
          role |-> ArgGet(Head(ds), "role"),
          knowledge |-> IF "knowledge" \in DOMAIN Head(ds)
                        THEN Head(ds).knowledge ELSE <<>>,
          relationships |-> <<>>, last_seen_location |-> None,
          last_seen_session |-> None, first_appeared_session |-> None,
          notes |-> <<>>, metadata |-> <<>>]>> \o TemplateNpcs(Tail(ds))
RECURSIVE TemplateLocations(_)
TemplateLocations(ds) ==
  IF ds = <<>> THEN <<>>
  ELSE <<[name |-> Head(ds).name, description |-> Head(ds).description,
          notable_events |-> IF "notable_events" \in DOMAIN Head(ds)
                             THEN Head(ds).notable_events ELSE <<>>,
          npcs_present |-> <<>>, first_visited_session |-> None,
          last_visited_session |-> None, notes |-> <<>>,
          metadata |-> <<>>]>> \o TemplateLocations(Tail(ds))
RECURSIVE TemplatePlotThreads(_, _)
TemplatePlotThreads(ds, idx) ==
  IF ds = <<>> THEN <<>>
  ELSE <<NewPlotThread(PlotId(idx + 1), Head(ds).title, Head(ds).description,
                       IF "status" \in DOMAIN Head(ds)
                       THEN Head(ds).status ELSE "active",
                       <<>>, <<>>, <<"template">>)>>
       \o TemplatePlotThreads(Tail(ds), idx + 1)

\* load_from_template: the campaign built from the template's data
LoadFromTemplate(t) ==
  [NewCampaign(t.name, t.setting, ArgGet(t, "overarching_goal")) EXCEPT
     !.npcs = TemplateNpcs(t.npcs),
     !.locations = TemplateLocations(t.locations),
     !.plot_threads = TemplatePlotThreads(t.plot_threads, 0)]

\* the campaign tool calls the language model may request
CampaignCalls == <<
  [name |-> "track_npc",
   arguments |-> [name |-> <<"Gundren">>, description |-> <<"A dwarf merchant">>,
                  role |-> <<"quest giver">>,
                  knowledge |-> <<<<"mine location">>>>,
                  location |-> <<"Phandalin">>]],
  [name |-> "track_npc",
   arguments |-> [name |-> <<"Gundren">>,
                  description |-> <<"Captured by goblins">>,
                  knowledge |-> <<<<"mine location">>, <<"goblin hideout">>>>]],
  [name |-> "track_npc",
   arguments |-> [name |-> <<"Sildar">>, description |-> <<"A knight">>,
                  knowledge |-> <<<<"secret">>, <<"secret">>>>]],
  [name |-> "track_npc",
   arguments |-> [name |-> <<"Sildar">>, description |-> <<"Wounded">>,
                  role |-> <<>>, location |-> <<"Cragmaw">>]],
  [name |-> "track_npc", arguments |-> [name |-> <<"Gundren">>]],
  [name |-> "track_location",
   arguments |-> [name |-> <<"Phandalin">>, description |-> <<"Under attack">>,
                  event |-> <<"Redbrand attack">>]],
  [name |-> "track_location",
   arguments |-> [name |-> <<"Cragmaw">>, description |-> <<"A goblin cave">>]],
  [name |-> "add_plot_thread",
   arguments |-> [title |-> <<"Rescue Gundren">>,
                  description |-> <<"Follow the goblin trail">>,
                  related_npcs |-> <<<<"Gundren">>>>]],
  [name |-> "update_plot_thread",
   arguments |-> [title |-> <<"Rescue Gundren">>,
                  update |-> <<"Found the hideout">>]],
  [name |-> "update_plot_thread",
   arguments |-> [title |-> <<"Rescue Gundren">>, update |-> <<"Gundren is free">>,
                  status |-> "completed"]],
  [name |-> "update_plot_thread",
   arguments |-> [title |-> <<"Rescue Gundren">>, update |-> <<"Trail lost">>,
                  status |-> "finished"]],
  [name |-> "update_plot_thread",
   arguments |-> [title |-> <<"The dragon">>, update |-> <<"Seen at dusk">>]],
  [name |-> "log_event",
   arguments |-> [event_type |-> "narration", content |-> <<"Night falls">>]]
>>

\* the session ids of consecutive sessions of a campaign
SessionOrder == <<<<"session_1">>, <<"session_2">>, <<"session_3">>,
                  <<"session_4">>>>

\* an agent in the first session of a campaign: without a campaign
\* manager, or with a manager that holds no campaign, a created campaign or
\* a campaign loaded from the template and linked to the session; the
\* manager saved what it holds
InitCampaign ==
  /\ phase = 1
  /\ env = "campaign"
  /\ palette = {}
  /\ seed \in Seeds
  /\ script = <<>>
  /\ first = NoRun
  /\ campaign_manager \in BOOLEAN
  /\ last_call = NoCall
  /\ agent_tools = <<>>
  /\ provider_chunks = <<>>
  /\ tool_call_accumulator = <<>>
  /\ yielded = <<>>
  /\ client_pc = "off"
  /\ roll = NoRoll
  /\ campaign \in
       IF campaign_manager
       THEN {None, Some(NewCampaign(<<"Lost Mines">>, CampaignSetting, None)),
             Some(CampaignAddSession(LoadFromTemplate(Template),
                                     SessionOrder[1]))}
       ELSE {None}
  /\ campaign_file =
       IF campaign.some THEN Some(CampaignToDict(campaign.val)) ELSE None
  /\ manager_call = NoManagerCall
  /\ InitAgent("manager", seed)

\* dm_agent._execute_tool(name, arguments) with a campaign tool call; an
\* exception reaches the caller, which goes on
CampaignToolCall ==
  /\ env = "campaign"
  /\ Len(trace) < MaxCampaignCalls
  /\ \E c \in 1..Len(CampaignCalls) :
     \E r \in {ExecuteToolWithCampaign(CampaignCalls[c].name,
                                       CampaignCalls[c].arguments,
                                       campaign_manager, campaign,
                                       campaign_file, session, rng)} :
        /\ last_call' = [name |-> CampaignCalls[c].name,
                         arguments |-> CampaignCalls[c].arguments,
                         session |-> session, rng |-> rng, r |-> r,
                         campaign |-> campaign,
                         campaign_file |-> campaign_file]
        /\ trace' = Append(trace, [name |-> CampaignCalls[c].name,
                                   arguments |-> CampaignCalls[c].arguments,
                                   id |-> <<0, Len(trace) + 1>>,
                                   raised |-> r.raised,
                                   session_id |-> session.session_id])
        /\ session' = r.session
        /\ rng' = r.rng
        /\ campaign' = r.campaign
        /\ campaign_file' = r.campaign_file
  /\ UNCHANGED <<phase, env, palette, seed, first, campaign_manager,
                 agent_tools, clientVars, roll, manager_call, agentVars>>

\* the next session of the campaign: a new agent with a new session log
\* and the same campaign manager
CampaignNewSession ==
  /\ env = "campaign"
  /\ \E k \in 1..(Len(SessionOrder) - 1) :
       /\ session.session_id = SessionOrder[k]
       /\ k < MaxSessions
       /\ session' = [NewSession EXCEPT !.session_id = SessionOrder[k + 1]]
  /\ UNCHANGED <<phase, env, palette, seed, first, campaign_manager, last_call,
                 agent_tools, clientVars, roll, managerVars, trace, rng,
                 agentVars>>

NextCampaign ==
  \/ CampaignToolCall
  \/ CampaignNewSession
  \/ (campaign_manager /\ ManagerSave)
  \/ (campaign_manager /\ ManagerLoad)

SpecCampaign == InitCampaign /\ [][NextCampaign]_vars

(***************************************************************************)
(* One turn through either method, from the first statement to the end     *)
(***************************************************************************)
\* the agent has no campaign manager, or one without a campaign, or one
\* with a campaign; the language model uses a d20 roll with and without
\* purpose, a scene start and an event
InitTurn ==
  /\ phase = 1
  /\ env = "free"
  /\ palette = {c \in 1..Len(Catalogue) :
                  \/ /\ Catalogue[c].name = "roll_dice"
                     /\ Catalogue[c].arguments.notation = <<"d", "2", "0">>
                  \/ /\ Catalogue[c].name = "start_scene"
                     /\ "title" \in DOMAIN Catalogue[c].arguments
                  \/ /\ Catalogue[c].name = "log_event"
                     /\ "content" \in DOMAIN Catalogue[c].arguments}
  /\ seed \in Seeds
  /\ script = <<>>
  /\ first = NoRun
  /\ campaign_manager \in BOOLEAN
  /\ campaign \in
       IF campaign_manager
       THEN {None} \cup {Some(NewCampaign(<<"Lost Mines">>, CampaignSetting, g)) :
                         g \in CampaignGoals}
       ELSE {None}
  /\ campaign_file = None
  /\ manager_call = NoManagerCall
  /\ last_call = NoCall
  /\ agent_tools = <<>>
  /\ provider_chunks = <<>>
  /\ tool_call_accumulator = <<>>
  /\ yielded = <<>>
  /\ client_pc = "off"
  /\ roll = NoRoll
  /\ \E v \in {"respond", "respond_stream"} : InitAgent(v, seed)

NextTurn ==
  \/ RespondStart
  \/ Chat
  \/ LoopTest
  \/ ExecTool
  \/ StreamStart
  \/ ChatStream1
  \/ ReadChunk1
  \/ StreamTest
  \/ StreamExecTool
  \/ ChatStream2
  \/ ReadChunk2
  \/ StreamFinish

SpecTurn == InitTurn /\ [][NextTurn]_vars

(***************************************************************************)
(* LLMClient.chat_stream: the accumulation of the provider's deltas        *)
(***************************************************************************)
\* the members a JSON argument text is made of, with the key and the value
\* json.loads gives them
JsonMembers == {"\"notation\": \"d20\"", "\"purpose\": \"Attack roll\""}
MemberKey(m) ==
  CASE m = "\"notation\": \"d20\"" -> "notation"
    [] m = "\"purpose\": \"Attack roll\"" -> "purpose"
MemberVal(m) ==
  CASE m = "\"notation\": \"d20\"" -> <<"d", "2", "0">>
    [] m = "\"purpose\": \"Attack roll\"" -> <<"Attack roll">>

\* a text (a tuple of tokens) is a JSON object: "{", members separated by
\* ",", "}"
JsonValid(t) ==
  /\ Len(t) >= 2
  /\ t[1] = "{"
  /\ t[Len(t)] = "}"
  /\ (Len(t) = 2 \/ Len(t) % 2 = 1)
  /\ \A k \in 2..(Len(t) - 1) :
       IF k % 2 = 0 THEN t[k] \in JsonMembers ELSE t[k] = ","

\* json.loads of a valid text: the dict of its members, a later member
\* replacing an earlier one with the same key
JsonLoads(t) ==
  [key \in {MemberKey(t[k]) : k \in {k \in 2..(Len(t) - 1) : k % 2 = 0}} |->
     MemberVal(t[CHOOSE k \in 2..(Len(t) - 1) :
                   /\ k % 2 = 0
                   /\ MemberKey(t[k]) = key
                   /\ \A l \in (k + 1)..(Len(t) - 1) :
                        l % 2 = 0 => MemberKey(t[l]) # key])]

\* a tool-call delta of a chunk (ChoiceDeltaToolCall); "" and <<>> stand
\* for a field that is None or empty, which the code treats alike
TcDelta(index, id, type, name, arguments) ==
  [index |-> index, id |-> id, type |-> type, name |-> name,
   arguments |-> arguments]

\* a chunk of the provider's stream: whether it has choices, and the delta
\* and the finish reason of its first choice
ProviderChunk(choices, content, tool_calls, finish_reason) ==
  [choices |-> choices, content |-> content, tool_calls |-> tool_calls,
   finish_reason |-> finish_reason]

\* the chunks the provider may send, in any order
ProviderChunks == <<
  ProviderChunk(FALSE, None, <<>>, "none"),
  ProviderChunk(TRUE, Some(<<"The attack ">>), <<>>, "none"),
  ProviderChunk(TRUE, None,
                <<TcDelta(0, "call_a", "function", "roll_dice", <<>>)>>, "none"),
  ProviderChunk(TRUE, None,
                <<TcDelta(0, "", "", "", <<"{", "\"notation\": \"d20\"">>)>>,
                "none"),
  ProviderChunk(TRUE, None,
                <<TcDelta(0, "", "", "",
                          <<",", "\"purpose\": \"Attack roll\"", "}">>)>>,
                "none"),
  ProviderChunk(TRUE, None,
                <<TcDelta(1, "call_b", "function", "end_scene", <<"{">>)>>,
                "none"),
  ProviderChunk(TRUE, None, <<TcDelta(1, "", "", "", <<"}">>)>>, "none"),
  ProviderChunk(TRUE, None,
                <<TcDelta(1, "call_c", "", "log_event", <<"}">>),
                  TcDelta(0, "", "", "", <<"}">>)>>, "none"),
  ProviderChunk(TRUE, None, <<>>, "tool_calls"),
  ProviderChunk(TRUE, Some(<<"hits!">>), <<>>, "stop")
>>

\* the position of the entry of index idx in the accumulator, 0 if none
AccPos(acc, idx) ==
  IF \E p \in 1..Len(acc) : acc[p].index = idx
  THEN CHOOSE p \in 1..Len(acc) : acc[p].index = idx
  ELSE 0

\* `if idx not in tool_call_accumulator:` the entry created for the index
WithEntry(acc, d) ==
  IF AccPos(acc, d.index) # 0 THEN acc
  ELSE Append(acc, [index |-> d.index, id |-> d.id,
                    type |-> IF d.type # "" THEN d.type ELSE "function",
                    name |-> "", arguments |-> <<>>])

\* the fields of the delta merged into the entry at position p
MergedAt(acc, p, d) ==
  [acc EXCEPT ![p].id = IF d.id # "" THEN d.id ELSE @,
              ![p].type = IF d.type # "" THEN d.type ELSE @,
              ![p].name = IF d.name # "" THEN d.name ELSE @,
              ![p].arguments = @ \o d.arguments]

\* a merge that keeps only the latest argument fragment of an index
MergeDeltaOverwrites(acc, d) ==
  [WithEntry(acc, d) EXCEPT
     ![AccPos(WithEntry(acc, d), d.index)] =
        [index |-> d.index,
         id |-> IF d.id # "" THEN d.id ELSE @.id,
         type |-> IF d.type # "" THEN d.type ELSE @.type,
         name |-> IF d.name # "" THEN d.name ELSE @.name,
         arguments |-> IF d.arguments # <<>> THEN d.arguments ELSE @.arguments]]

\* one iteration of `for tc_delta in delta.tool_calls:`
MergeDelta(acc, d) ==
  MergedAt(WithEntry(acc, d), AccPos(WithEntry(acc, d), d.index), d)

RECURSIVE MergeDeltas(_, _)
MergeDeltas(acc, ds) ==
  IF ds = <<>> THEN acc
  ELSE MergeDeltas(MergeDelta(acc, Head(ds)), Tail(ds))

\* StreamChunk
StreamChunk(content, tool_calls, finish_reason) ==
  [content |-> content, tool_calls |-> tool_calls,
   finish_reason |-> finish_reason]

\* the ToolCall built from an accumulator entry at completion
Completed(tc) ==
  [id |-> tc.id, type |-> tc.type,
   function |-> [name |-> tc.name,
                 arguments |-> IF tc.arguments # <<>>
                               THEN JsonLoads(tc.arguments) ELSE <<>>]]

\* json.loads raises on the argument text of some entry
LoadsRaises(acc) ==
  \E p \in 1..Len(acc) :
     acc[p].arguments # <<>> /\ ~JsonValid(acc[p].arguments)

\* the chunks yielded so far, then the content chunk of this iteration
WithContent(y, chunk, n) ==
  IF Truthy(chunk.content)
  THEN Append(y, [chunk |-> StreamChunk(chunk.content, <<>>, chunk.finish_reason),
                  after |-> n])
  ELSE y

\* then the finish chunk, with the tool calls of the accumulator
WithFinish(y, acc, chunk, n) ==
  Append(y, [chunk |-> StreamChunk(None,
                                   [p \in 1..Len(acc) |-> Completed(acc[p])],
                                   chunk.finish_reason),
             after |-> n])

\* a test drives chat_stream against a provider that sends what it likes
InitClient ==
  /\ phase = 1
  /\ env = "provider"
  /\ palette = {}
  /\ seed \in Seeds
  /\ script = <<>>
  /\ first = NoRun
  /\ campaign_manager = FALSE
  /\ last_call = NoCall
  /\ agent_tools = <<>>
  /\ provider_chunks = <<>>
  /\ tool_call_accumulator = <<>>
  /\ yielded = <<>>
  /\ client_pc = "streaming"
  /\ roll = NoRoll
  /\ campaign = None
  /\ campaign_file = None
  /\ manager_call = NoManagerCall
  /\ InitAgent("client", seed)

notClient == <<phase, env, palette, seed, first, campaign_manager, last_call,
               agent_tools, roll, managerVars, trace, session, rng, agentVars>>

\* one iteration of `for chunk in stream:`, run to its end by a consumer
\* that takes every chunk
ChunkArrives ==
  /\ client_pc = "streaming"
  /\ Len(provider_chunks) < MaxStreamChunks
  /\ \E c \in 1..Len(ProviderChunks) :
     \E acc \in {MergeDeltas(tool_call_accumulator, ProviderChunks[c].tool_calls)} :
     \E y \in {WithContent(yielded, ProviderChunks[c], Len(provider_chunks) + 1)} :
        /\ provider_chunks' = Append(provider_chunks, ProviderChunks[c])
        /\ IF ~ProviderChunks[c].choices
           THEN UNCHANGED <<tool_call_accumulator, yielded, client_pc>>
           ELSE /\ tool_call_accumulator' = acc
                /\ IF ProviderChunks[c].finish_reason = "none"
                   THEN yielded' = y /\ client_pc' = client_pc
                   ELSE IF LoadsRaises(acc)
                   THEN yielded' = y /\ client_pc' = "raised"
                   ELSE /\ yielded' = WithFinish(y, acc, ProviderChunks[c],
                                                 Len(provider_chunks) + 1)
                        /\ client_pc' = client_pc
  /\ UNCHANGED notClient

\* the provider's stream is exhausted: the generator returns
StreamEnds ==
  /\ client_pc = "streaming"
  /\ client_pc' = "returned"
  /\ UNCHANGED <<provider_chunks, tool_call_accumulator, yielded, notClient>>

NextClient == ChunkArrives \/ StreamEnds

SpecClient == InitClient /\ [][NextClient]_vars

(***************************************************************************)
(* respond_stream on top of chat_stream: the chunks the agent reads in its *)
(* first loop are the chunks the client yields for the provider's stream   *)
(***************************************************************************)
\* the chunk chat_stream yields for a finish reason, as opposed to the
\* chunk it yields for a content delta
IsFinishChunk(y) == ~y.chunk.content.some /\ y.chunk.finish_reason # "none"

\* the tool calls chat_stream reports when completion is first signalled
ReportedToolCalls ==
  IF SelectSeq(yielded, IsFinishChunk) = <<>> THEN <<>>
  ELSE SelectSeq(yielded, IsFinishChunk)[1].chunk.tool_calls

\* the content deltas chat_stream yielded, joined
RECURSIVE YieldedContent(_)
YieldedContent(ys) ==
  IF ys = <<>> THEN <<>>
  ELSE OrEmpty(Head(ys).chunk.content) \o YieldedContent(Tail(ys))

InitDelivery ==
  /\ phase = 1
  /\ env = "free"
  /\ palette = {}
  /\ seed \in Seeds
  /\ script = <<>>
  /\ first = NoRun
  /\ campaign_manager = FALSE
  /\ last_call = NoCall
  /\ agent_tools = <<>>
  /\ provider_chunks = <<>>
  /\ tool_call_accumulator = <<>>
  /\ yielded = <<>>
  /\ client_pc = "streaming"
  /\ roll = NoRoll
  /\ campaign = None
  /\ campaign_file = None
  /\ manager_call = NoManagerCall
  /\ InitAgent("respond_stream", seed)

\* the first llm_client.chat_stream(messages, ...) call, answered by a
\* provider stream that chat_stream read to its end without raising
ChatStreamDelivered ==
  /\ pc = "s_awaiting1"
  /\ client_pc = "returned"
  /\ \E r \in {[content |-> OrNone(YieldedContent(yielded)),
                 tool_calls |-> ReportedToolCalls]} :
       /\ response' = r
       /\ script' = <<r>>
  /\ chunks' = [k \in 1..Len(yielded) |-> yielded[k].chunk]
  /\ modelCalls' = Inc(modelCalls)
  /\ pc' = "s_reading1"
  /\ UNCHANGED <<harness, variant, raised, messages, i, rounds, trace,
                 session, rng, retval, output, accumulated_content,
                 accumulated_tool_calls>>

NextDelivery ==
  \/ ChunkArrives
  \/ StreamEnds
  \/ StreamStart
  \/ ChatStreamDelivered
  \/ ReadChunk1
  \/ StreamTest
  \/ StreamExecTool
  \/ ChatStream2
  \/ ReadChunk2
  \/ StreamFinish

SpecDelivery == InitDelivery /\ [][NextDelivery]_vars

TypeOK ==
  /\ variant \in {"respond", "respond_stream", "direct", "client", "dice",
                 "manager"}
  /\ pc \in {"idle", "awaiting", "responded", "executing", "done", "failed",
             "abandoned",
             "s_awaiting1", "s_reading1", "s_test", "s_executing",
             "s_awaiting2", "s_reading2"}
  /\ modelCalls \in 0..MaxHist
  /\ Len(messages) <= MaxHist

(***************************************************************************)
(* Derived views of the state                                              *)
(***************************************************************************)
\* the tool calls the responses of a script carry, in order
RECURSIVE RequestedCalls(_)
RequestedCalls(scr) ==
  IF scr = <<>> THEN <<>> ELSE Head(scr).tool_calls \o RequestedCalls(Tail(scr))

\* the responses the method has received so far
Consumed == SubSeq(script, 1, modelCalls)

\* the tool calls of the round the method is in
CurrentCalls ==
  IF variant = "respond" THEN response.tool_calls ELSE accumulated_tool_calls

IsTool(m) == m.role = "tool"
ToolMessages == SelectSeq(messages, IsTool)

\* the position of the last assistant message of the history, 0 if none
LastAssistant ==
  IF \E a \in 1..Len(messages) : messages[a].role = "assistant"
  THEN CHOOSE a \in 1..Len(messages) :
         /\ messages[a].role = "assistant"
         /\ \A b \in (a + 1)..Len(messages) : messages[b].role # "assistant"
  ELSE 0

\* the messages appended after the last assistant message
RoundResults == SubSeq(messages, LastAssistant + 1, Len(messages))

\* the session after the player action was logged
TurnStartSession ==
  SessionLogEvent(NewSession, "player_action", PlayerMessage, "Player", <<>>)

\* _execute_tool applied to the calls one after the other, each in the
\* state the one before left: the results, in order, and the final state
RECURSIVE InOrder(_, _, _)
InOrder(calls, s, r) ==
  IF calls = <<>> THEN [results |-> <<>>, session |-> s, rng |-> r]
  ELSE LET before == InOrder(SubSeq(calls, 1, Len(calls) - 1), s, r)
           last   == calls[Len(calls)]
       IN [results |-> Append(before.results,
                              ExecuteTool(last.name, last.arguments,
                                          before.session, before.rng).result),
           session |-> ExecuteTool(last.name, last.arguments,
                                   before.session, before.rng).session,
           rng |-> ExecuteTool(last.name, last.arguments,
                               before.session, before.rng).rng]

\* the narration events of a session log
IsNarration(ev) == ev.event_type = "narration"
NarrationEvents(s) == SelectSeq(s.events, IsNarration)

\* the content of the response the method received last
FinalContent == OrEmpty(script[modelCalls].content)

\* the content deltas of the response to model call k, one per yield
Deltas(k) ==
  [d \in 1..Len(OrEmpty(script[k].content)) |-> <<OrEmpty(script[k].content)[d]>>]

\* what respond_stream yields for the result of a tool call
Surfaced(name, result) == <<"\n[", name, ": ", result, "]\n">>

\* the tool-call deltas of the first n chunks delivered, in arrival order
RECURSIVE ArrivedDeltas(_)
ArrivedDeltas(n) ==
  IF n = 0 THEN <<>>
  ELSE ArrivedDeltas(n - 1) \o
         (IF provider_chunks[n].choices THEN provider_chunks[n].tool_calls
          ELSE <<>>)

\* the positional indices of the deltas ds, in the order they first arrived
RECURSIVE FirstArrival(_)
FirstArrival(ds) ==
  IF ds = <<>> THEN <<>>
  ELSE IF \E k \in 1..(Len(ds) - 1) : ds[k].index = ds[Len(ds)].index
  THEN FirstArrival(SubSeq(ds, 1, Len(ds) - 1))
  ELSE Append(FirstArrival(SubSeq(ds, 1, Len(ds) - 1)), ds[Len(ds)].index)

\* the argument fragments of the deltas ds that carry index idx, joined in
\* arrival order
RECURSIVE FragmentsOf(_, _)
FragmentsOf(ds, idx) ==
  IF ds = <<>> THEN <<>>
  ELSE FragmentsOf(SubSeq(ds, 1, Len(ds) - 1), idx) \o
         (IF ds[Len(ds)].index = idx THEN ds[Len(ds)].arguments ELSE <<>>)

\* the positions of the deltas of ds that carry index idx
Carrying(ds, idx) == {k \in 1..Len(ds) : ds[k].index = idx}

\* the last non-empty id and name delivered for index idx, "" if none
LastId(ds, idx) ==
  IF \E k \in Carrying(ds, idx) : ds[k].id # ""
  THEN ds[CHOOSE k \in Carrying(ds, idx) :
            /\ ds[k].id # ""
            /\ \A l \in Carrying(ds, idx) : l > k => ds[l].id = ""].id
  ELSE ""
LastName(ds, idx) ==
  IF \E k \in Carrying(ds, idx) : ds[k].name # ""
  THEN ds[CHOOSE k \in Carrying(ds, idx) :
            /\ ds[k].name # ""
            /\ \A l \in Carrying(ds, idx) : l > k => ds[l].name = ""].name
  ELSE ""

\* the yielded chunk y reports, for each index delivered before it, the
\* tool call the deltas ds of that index make up
ReportsExactly(y, ds) ==
  /\ Len(y.chunk.tool_calls) = Len(FirstArrival(ds))
  /\ \A j \in 1..Len(y.chunk.tool_calls) :
       /\ y.chunk.tool_calls[j].id = LastId(ds, FirstArrival(ds)[j])
       /\ y.chunk.tool_calls[j].function.name = LastName(ds, FirstArrival(ds)[j])
       /\ JsonValid(FragmentsOf(ds, FirstArrival(ds)[j]))
            \/ FragmentsOf(ds, FirstArrival(ds)[j]) = <<>>
       /\ DOMAIN y.chunk.tool_calls[j].function.arguments =
            {MemberKey(m) : m \in {FragmentsOf(ds, FirstArrival(ds)[j])[k] :
                                     k \in 1..Len(FragmentsOf(ds, FirstArrival(ds)[j]))}
                                  \cap JsonMembers}
       /\ \A m \in {FragmentsOf(ds, FirstArrival(ds)[j])[k] :
                      k \in 1..Len(FragmentsOf(ds, FirstArrival(ds)[j]))}
                   \cap JsonMembers :
            y.chunk.tool_calls[j].function.arguments[MemberKey(m)] = MemberVal(m)

\* a model call of the turn failed
FailedCall == \E k \in 1..Len(script) : "error" \in DOMAIN script[k]

(***************************************************************************)
(* Claims                                                                  *)
(***************************************************************************)

\* C1: within one user turn respond never performs more tool-resolution
\* rounds than the configured maximum round count.
C1_RoundBound == variant = "respond" => rounds <= MaxRounds

\* C2: when the language model requests a tool in every response, the turn
\* eventually ends (the claim asks for more: that it ends Done, with the
\* truncation flagged).
C2_EventuallyEnds == <>(pc \in {"done", "failed"})

\* C3: whenever respond has stopped, it has returned; the responses it
\* received are k >= 0 responses that carry tool calls followed by one that
\* carries none; it made k + 1 model calls, executed exactly the requested
\* tool calls, one execution each, and returned the content of the last
\* response (the empty string if that content is absent).
C3_CallsAndExecutions ==
  (variant = "respond" /\ pc \in {"done", "failed"}) =>
     /\ pc = "done"
     /\ modelCalls = Len(script)
     /\ script[Len(script)].tool_calls = <<>>
     /\ \A j \in 1..(Len(script) - 1) : script[j].tool_calls # <<>>
     /\ Len(trace) = Requested(script)
     /\ \A j \in 1..Len(trace) :
          /\ trace[j].id = RequestedCalls(script)[j].id
          /\ trace[j].name = RequestedCalls(script)[j].function.name
          /\ trace[j].raised = "none"
     /\ retval = OrEmpty(script[Len(script)].content)

\* C4: when the first response carries no tool call, respond makes exactly
\* one model call and executes no tool, appends no assistant or tool message
\* to the history, and returns the content of that response.
C4_NarrationOnly ==
  (variant = "respond" /\ modelCalls >= 1 /\ script[1].tool_calls = <<>>) =>
     /\ modelCalls = 1
     /\ trace = <<>>
     /\ messages = InitialMessages(TurnStartSession)
     /\ pc \in {"responded", "done"}
     /\ pc = "done" => retval = OrEmpty(script[1].content)

\* C4 witness: respond returned a narration after a single model call
C4_Witness ==
  /\ variant = "respond"
  /\ pc = "done"
  /\ modelCalls = 1
  /\ script[1].tool_calls = <<>>
  /\ retval = <<"The attack ", "hits!">>

\* C5: within one round the tool calls of the response are executed one
\* after the other in the order received, each in the session state the
\* one before left, and one tool-result message is appended per call, in
\* the same order, carrying the correlation id of its call: when a round
\* is over, however it ended, the messages after its assistant message are
\* exactly the results of its calls.
C5_RoundInOrder ==
  (rounds >= 1 /\ pc \in {"awaiting", "s_awaiting2", "failed"}) =>
     /\ Len(RoundResults) = Len(CurrentCalls)
     /\ \A j \in 1..Len(RoundResults) :
          /\ RoundResults[j].role = "tool"
          /\ RoundResults[j].tool_call_id = CurrentCalls[j].id
     /\ Len(ToolMessages) = Len(trace)
     /\ \A j \in 1..Len(ToolMessages) :
          ToolMessages[j].content =
            Some(InOrder(trace, TurnStartSession, seed).results[j])
     /\ session = InOrder(trace, TurnStartSession, seed).session

\* C6: when a model call after the first is about to be issued, the
\* history holds, for every tool call of every response received in this
\* turn, an assistant message that lists the call unchanged, followed later
\* by exactly one tool message with the correlation id of the call.
C6_HistoryWellFormed ==
  (pc \in {"awaiting", "s_awaiting2"} /\ modelCalls >= 1) =>
     \A c \in 1..Len(RequestedCalls(Consumed)) :
        \E a \in 1..Len(messages) :
           /\ messages[a].role = "assistant"
           /\ \E k \in 1..Len(messages[a].tool_calls) :
                messages[a].tool_calls[k] = ModelDump(RequestedCalls(Consumed)[c])
           /\ Cardinality({m \in 1..Len(messages) :
                             /\ messages[m].role = "tool"
                             /\ messages[m].tool_call_id =
                                  RequestedCalls(Consumed)[c].id}) = 1
           /\ \A m \in 1..a :
                messages[m].role = "tool" =>
                  messages[m].tool_call_id # RequestedCalls(Consumed)[c].id

\* C6 witness: the third model call is about to be issued after two rounds
\* that executed three tool calls in all
C6_Witness ==
  /\ pc = "awaiting"
  /\ modelCalls = 2
  /\ Len(RequestedCalls(Consumed)) = 3
  /\ Len(ToolMessages) = 3

\* C7: no tool call makes the dispatch loop fail with an uncaught
\* exception, whatever its arguments.
C7_NoUncaughtFailure == pc # "failed"

\* C8: given the same responses of the language model, respond_stream makes
\* the same model calls and the same tool executions as respond and leaves
\* the same session state.
C8_StreamEquivalence ==
  (phase = 2 /\ pc \in {"done", "failed"}) =>
     /\ modelCalls = first.modelCalls
     /\ Len(trace) = Len(first.trace)
     /\ \A j \in 1..Len(trace) : trace[j].id = first.trace[j].id
     /\ Len(session.scenes) = Len(first.session.scenes)
     /\ session.current_scene = first.session.current_scene
     /\ Len(session.events) = Len(first.session.events)

\* C9: a tool call whose name matches no registered handler returns the
\* "Unknown tool" sentinel: the step raises nothing, leaves the session and
\* the random source as they are, appends the sentinel as the tool result
\* of the call, and the loop goes on.
C9_UnknownToolRecoverable ==
  [][(/\ pc \in {"executing", "s_executing"}
      /\ CurrentCalls[i].function.name \notin RegisteredTools)
     => /\ pc' # "failed"
        /\ raised' = "none"
        /\ session' = session
        /\ rng' = rng
        /\ messages' = Append(messages,
                              Message("tool",
                                      Some(<<"Unknown tool: ",
                                             CurrentCalls[i].function.name>>),
                                      <<>>, CurrentCalls[i].id))]_vars

\* C9 witness: an unknown tool was executed and the loop is about to issue
\* the next model call
C9_Witness ==
  /\ pc = "awaiting"
  /\ \E j \in 1..Len(trace) : trace[j].name \notin RegisteredTools

\* C10: at most one scene is active, and the active scene, if any, is the
\* current scene and the most recently started one.
C10_OneActiveScene ==
  /\ Cardinality(ActiveScenes(session)) <= 1
  /\ session.current_scene = 0 => ActiveScenes(session) = {}
  /\ session.current_scene # 0 =>
       /\ ActiveScenes(session) = {session.current_scene}
       /\ session.current_scene = Len(session.scenes)

\* C10 witness: a second start_scene, with no end_scene before it, ended
\* the first scene and activated the second
C10_Witness ==
  /\ Len(session.scenes) = 2
  /\ session.current_scene = 2
  /\ session.scenes[1].status = "ended"
  /\ \A j \in 1..Len(trace) : trace[j].name = "start_scene"

\* C11: an end_scene call made while a scene is active leaves no scene
\* active, stores the summary it was given on the scene it ended, and
\* returns a string that echoes the summary, or "None" when no summary or
\* an empty one was given.
C11_EndSceneEnds ==
  (last_call.name = "end_scene" /\ last_call.session.current_scene # 0) =>
     /\ last_call.r.raised = "none"
     /\ session.current_scene = 0
     /\ ActiveScenes(session) = {}
     /\ session.scenes[last_call.session.current_scene].status = "ended"
     /\ session.scenes[last_call.session.current_scene].summary =
          ArgGet(last_call.arguments, "summary")
     /\ Len(last_call.r.result) = 2
     /\ last_call.r.result[2] =
          (IF "summary" \in DOMAIN last_call.arguments
              /\ last_call.arguments.summary # <<>>
           THEN last_call.arguments.summary ELSE <<"None">>)

\* C11 witness: an active scene was ended by an end_scene call that gave
\* no summary
C11_Witness ==
  /\ last_call.name = "end_scene"
  /\ last_call.session.current_scene # 0
  /\ "summary" \notin DOMAIN last_call.arguments
  /\ last_call.r.result[2] = <<"None">>

\* C12: when a turn of respond or respond_stream has completed, the session
\* log holds exactly one narration event, by the DM, with the final
\* narration content, logged last, if that content is not empty, and no
\* narration event if it is empty.
C12_NarrationLogged ==
  (variant \in {"respond", "respond_stream"} /\ pc = "done") =>
     IF FinalContent # <<>>
     THEN /\ Len(NarrationEvents(session)) = 1
          /\ session.events[Len(session.events)].event_type = "narration"
          /\ session.events[Len(session.events)].content = FinalContent
          /\ session.events[Len(session.events)].actor = "DM"
     ELSE Len(NarrationEvents(session)) = 0

\* C12 witness: respond_stream completed a turn with a tool round and
\* logged the narration of its second stream
C12_Witness ==
  /\ variant = "respond_stream"
  /\ pc = "done"
  /\ rounds = 1
  /\ FinalContent = <<"The attack ", "hits!">>
  /\ Len(NarrationEvents(session)) = 1

C14_StreamAccumulation ==
  /\ \A k \in 1..Len(yielded) :
       /\ yielded[k].chunk.finish_reason = "none" =>
            yielded[k].chunk.tool_calls = <<>>
       /\ Truthy(yielded[k].chunk.content) => yielded[k].chunk.tool_calls = <<>>
       /\ ~Truthy(yielded[k].chunk.content) =>
            /\ provider_chunks[yielded[k].after].finish_reason # "none"
            /\ ReportsExactly(yielded[k], ArrivedDeltas(yielded[k].after))
  /\ client_pc = "raised" =>
       /\ provider_chunks[Len(provider_chunks)].finish_reason # "none"
       /\ \E k \in 1..Len(ArrivedDeltas(Len(provider_chunks))) :
            /\ FragmentsOf(ArrivedDeltas(Len(provider_chunks)),
                           ArrivedDeltas(Len(provider_chunks))[k].index) # <<>>
            /\ ~JsonValid(FragmentsOf(ArrivedDeltas(Len(provider_chunks)),
                                      ArrivedDeltas(Len(provider_chunks))[k].index))

\* C14 witness: the deltas of two indices arrived interleaved, the second
\* index got a new id and name on the way, and the finish chunk reported
\* both tool calls
C14_Witness ==
  /\ Len(yielded) >= 1
  /\ Len(yielded[Len(yielded)].chunk.tool_calls) = 2
  /\ DOMAIN yielded[Len(yielded)].chunk.tool_calls[1].function.arguments =
       {"notation"}
  /\ yielded[Len(yielded)].chunk.tool_calls[2].id = "call_c"
  /\ yielded[Len(yielded)].chunk.tool_calls[2].function.name = "log_event"

\* C15: once a model call of the turn has failed, the method has stopped
\* with the provider's exception, which it hands to its caller; the tool
\* calls executed are those of the responses received before, none was
\* executed after, and no narration event is in the log.
C15_UpstreamSurfaced ==
  FailedCall =>
     /\ pc = "failed"
     /\ raised = "APIError"
     /\ \A k \in 1..(Len(script) - 1) : "error" \notin DOMAIN script[k]
     /\ Len(trace) = Requested(SubSeq(script, 1, Min(Len(script) - 1, rounds)))
     /\ \A j \in 1..Len(trace) : trace[j].raised = "none"
     /\ NarrationEvents(session) = <<>>

\* C15 witness: the second model call of respond failed after a round that
\* executed two tool calls
C15_Witness ==
  /\ FailedCall
  /\ variant = "respond"
  /\ modelCalls = 2
  /\ Len(trace) = 2

\* C16: when the consumer of respond_stream has stopped consuming, the
\* player_action event logged at the start of the turn is in the log, and
\* the session holds every effect (events, scene transitions) of the tool
\* calls executed so far, as they left it, and nothing else.
C16_NoRollback ==
  pc = "abandoned" =>
     /\ Len(session.events) >= 1
     /\ session.events[1] = TurnStartSession.events[1]
     /\ session = InOrder(trace, TurnStartSession, seed).session

\* C16 witness: the consumer stopped after a tool call that started a scene
\* and one that logged an event in it
C16_Witness ==
  /\ pc = "abandoned"
  /\ Len(trace) = 2
  /\ session.current_scene = 1
  /\ Len(session.events) = 2
  /\ session.events[2].scene_id = 1

\* C17: the tools get_tools offers always include roll_dice, start_scene,
\* end_scene and log_event; with a campaign manager they also include
\* track_npc, track_location, add_plot_thread and update_plot_thread; so
\* every tool _execute_tool handles for the agent is declared to the model.
C17_ToolsDeclared ==
  agent_tools # <<>> =>
     /\ \A k \in 1..Len(BaseTools) :
          \E j \in 1..Len(agent_tools) : agent_tools[j] = BaseTools[k]
     /\ campaign_manager =>
          \A k \in 1..Len(CampaignTools) :
             \E j \in 1..Len(agent_tools) : agent_tools[j] = CampaignTools[k]
     /\ \A name \in HandledTools(campaign_manager) :
          \E j \in 1..Len(agent_tools) : agent_tools[j] = name

\* C18: a roll_dice call that succeeds appends exactly one event to the
\* session log, a dice_roll event whose content holds the purpose and the
\* details of the roll and whose metadata hold the notation, the mode the
\* dice were rolled in (normal when roll_type is omitted) and the total; the
\* string it returns includes the details.
C18_RollLogged ==
  (last_call.name = "roll_dice" /\ last_call.r.raised = "none") =>
     /\ Len(session.events) = Len(last_call.session.events) + 1
     /\ SubSeq(session.events, 1, Len(last_call.session.events)) =
          last_call.session.events
     /\ session.events[Len(session.events)].event_type = "dice_roll"
     /\ session.events[Len(session.events)].content =
          <<last_call.arguments.purpose, ": ", last_call.r.result[2]>>
     /\ session.events[Len(session.events)].metadata =
          <<<<"notation", last_call.arguments.notation>>,
            <<"roll_type", last_call.r.result[2].mode>>,
            <<"total", last_call.r.result[2].total>>>>
     /\ "roll_type" \notin DOMAIN last_call.arguments =>
          session.events[Len(session.events)].metadata[2][2] = "normal"
     /\ last_call.r.result[1] = "Roll result: "
     /\ last_call.r.result[2].notation = last_call.arguments.notation

\* the concatenation of the strings the consumer of a generator received
RECURSIVE Joined(_)
Joined(ys) == IF ys = <<>> THEN <<>> ELSE Head(ys) \o Joined(Tail(ys))

\* C19: when a streamed turn ends without tool calls, the chunks
\* respond_stream yielded, joined, are the content deltas of the model
\* stream joined in arrival order, and are the content of the narration
\* event the turn logged (the last event of the session log).
C19_StreamedContent ==
  (variant = "respond_stream" /\ pc = "done" /\ rounds = 0
   /\ script[1].tool_calls = <<>>) =>
     /\ Joined(output) = Joined(Deltas(1))
     /\ Joined(output) = OrEmpty(script[1].content)
     /\ Joined(output) # <<>> =>
          /\ session.events[Len(session.events)].event_type = "narration"
          /\ session.events[Len(session.events)].content = Joined(output)

\* C19 witness: a streamed turn without tool calls whose stream carried
\* two content deltas
C19_Witness ==
  /\ variant = "respond_stream"
  /\ pc = "done"
  /\ rounds = 0
  /\ script[1].tool_calls = <<>>
  /\ output = <<<<"The attack ">>, <<"hits!">>>>
  /\ session.events[Len(session.events)].content = <<"The attack ", "hits!">>

\* C20: in the RollResult of every roll of a valid notation, in every roll
\* mode, the total is the sum of the kept rolls plus the modifier of the
\* notation, negative modifiers included; with a keep clause of count n the
\* kept rolls are min(n, count) of the rolls, without one they are the
\* individual rolls.
C20_TotalAndKept ==
  (roll.mode # "none" /\ roll.r.raised = "none") =>
     \E expr \in {ParseNotation(roll.notation)} :
       /\ expr.ok
       /\ roll.r.result.modifier = expr.modifier
       /\ roll.r.result.total =
            SumSeq(roll.r.result.kept_rolls) + roll.r.result.modifier
       /\ Len(roll.r.result.individual_rolls) = expr.count
       /\ IF expr.keep # "none"
          THEN Len(roll.r.result.kept_rolls) = Min(expr.n, expr.count)
          ELSE roll.r.result.kept_rolls = roll.r.result.individual_rolls

\* C20 witness: 1d4-5 rolled with disadvantage gave a negative total, the
\* roll minus five
C20_Witness ==
  /\ roll.mode = "disadvantage"
  /\ roll.notation = <<"1", "d", "4", "-", "5">>
  /\ roll.r.raised = "none"
  /\ roll.r.result.modifier = 0 - 5
  /\ roll.r.result.total < 0
  /\ roll.r.result.total = roll.r.result.kept_rolls[1] - 5

\* C21: in the RollResult of every roll of a valid notation, whatever the
\* die size, individual_rolls has exactly count entries and each of them is
\* at least 1 and at most sides.
C21_RollsInRange ==
  (roll.mode # "none" /\ roll.r.raised = "none") =>
     \E expr \in {ParseNotation(roll.notation)} :
       /\ Len(roll.r.result.individual_rolls) = expr.count
       /\ \A k \in 1..Len(roll.r.result.individual_rolls) :
            /\ roll.r.result.individual_rolls[k] >= 1
            /\ roll.r.result.individual_rolls[k] <= expr.sides

\* C21 witness: three seven-sided dice showed both a 1 and a 7
C21_Witness ==
  /\ roll.mode = "normal"
  /\ roll.notation = <<"3", "d", "7">>
  /\ roll.r.raised = "none"
  /\ Len(roll.r.result.individual_rolls) = 3
  /\ \E k \in 1..3 : roll.r.result.individual_rolls[k] = 7
  /\ \E k \in 1..3 : roll.r.result.individual_rolls[k] = 1

\* the error kinds of the notation parser
ParseErrorKinds ==
  {"missing_separator", "zero_count", "non_numeric_sides", "zero_sides",
   "zero_keep", "keep_exceeds_count", "trailing_characters"}

\* C22: parsing is total: every text is either parsed or rejected with one
\* of the parser's error kinds, which the roller raises as a ValueError
\* without drawing a die; 2d6kh5 (keep exceeds count), 0d6 (zero count), d0
\* (zero sides) and abc (no separator) are rejected with four different
\* error kinds.
C22_ParseRejects ==
  roll.mode # "none" =>
     \E expr \in {ParseNotation(roll.notation)} :
       /\ expr.ok <=> expr.error = "none"
       /\ ~expr.ok => /\ expr.error \in ParseErrorKinds
                      /\ roll.r.raised = "ValueError"
                      /\ roll.r.result = expr.error
                      /\ roll.r.rng = roll.rng
       /\ roll.r.raised \in {"none", "ValueError"}
       /\ roll.notation = <<"2", "d", "6", "k", "h", "5">> =>
            expr.error = "keep_exceeds_count"
       /\ roll.notation = <<"0", "d", "6">> => expr.error = "zero_count"
       /\ roll.notation = <<"d", "0">> => expr.error = "zero_sides"
       /\ roll.notation = <<"a", "b", "c">> => expr.error = "missing_separator"

\* C22 witness: 2d6kh5 was rejected by a roller whose source stayed where
\* it was
C22_Witness ==
  /\ roll.mode = "normal"
  /\ roll.notation = <<"2", "d", "6", "k", "h", "5">>
  /\ roll.r.raised = "ValueError"
  /\ roll.r.result = "keep_exceeds_count"
  /\ rng = roll.rng

\* C23: a roll_dice call that asks for advantage or disadvantage with a
\* notation that has a keep clause is rejected with the roller's usage
\* error: no die is drawn (the random source is where it was) and the
\* session log is as it was, with no dice_roll event appended.
C23_KeepWithModeRejected ==
  (/\ last_call.name = "roll_dice"
   /\ DOMAIN last_call.arguments = {"notation", "purpose", "roll_type"}
   /\ last_call.arguments.roll_type \in {"advantage", "disadvantage"}
   /\ ParseNotation(last_call.arguments.notation).ok
   /\ ParseNotation(last_call.arguments.notation).keep # "none") =>
     /\ last_call.r.raised = "ValueError"
     /\ last_call.r.rng = last_call.rng
     /\ rng = last_call.rng
     /\ last_call.r.session = last_call.session
     /\ session = last_call.session

\* C23 witness: 3D6KL2 with disadvantage was rejected after an earlier
\* roll had been logged
C23_Witness ==
  /\ last_call.name = "roll_dice"
  /\ last_call.arguments.notation = <<"3", "D", "6", "K", "L", "2">>
  /\ "roll_type" \in DOMAIN last_call.arguments
  /\ last_call.arguments.roll_type = "disadvantage"
  /\ last_call.r.raised = "ValueError"
  /\ Len(session.events) = 1
  /\ session.events[1].event_type = "dice_roll"

\* C24: when the manager holds no campaign, save() and get_summary() raise
\* ValueError, the campaign file is as it was before the call (nothing is
\* written, no file is created) and the manager still holds no campaign.
C24_NoCampaignValueError ==
  (manager_call.op \in {"save", "get_summary"} /\ ~manager_call.campaign.some) =>
     /\ manager_call.raised = "ValueError"
     /\ manager_call.result = <<>>
     /\ campaign_file = manager_call.campaign_file
     /\ campaign = manager_call.campaign

\* C24 witness: save() on a manager without a campaign, whose campaign file
\* exists from an earlier run, raised and left the file alone
C24_Witness ==
  /\ manager_call.op = "save"
  /\ ~manager_call.campaign.some
  /\ manager_call.raised = "ValueError"
  /\ campaign_file.some
  /\ campaign_file.val.name = <<"Lost Mines">>

\* the events a step appended to the session log
NewEvents ==
  SubSeq(session'.events, Len(session.events) + 1, Len(session'.events))

\* C25: within a turn the session log only grows; its first event is the
\* player_action event with the player's message, appended by the first
\* step of the method, before any model call; every other event is appended
\* either by the execution of a tool call, at the time that call is
\* executed and after a model call, or is the narration event, appended by
\* the step that ends the turn, after which nothing is appended.
C25_EventOrder ==
  [][/\ Len(session'.events) >= Len(session.events)
     /\ SubSeq(session'.events, 1, Len(session.events)) = session.events
     /\ pc' # "idle" =>
          /\ Len(session'.events) >= 1
          /\ session'.events[1].event_type = "player_action"
          /\ session'.events[1].content = PlayerMessage
     /\ session'.events # session.events =>
          \/ /\ pc = "idle"
             /\ modelCalls' = 0
             /\ session.events = <<>>
             /\ Len(NewEvents) = 1
          \/ /\ Len(trace') = Len(trace) + 1
             /\ modelCalls >= 1
             /\ pc # "done"
             /\ \A k \in 1..Len(NewEvents) :
                  NewEvents[k].event_type \notin {"player_action", "narration"}
          \/ /\ pc # "done"
             /\ pc' = "done"
             /\ trace' = trace
             /\ Len(NewEvents) = 1
             /\ NewEvents[1].event_type = "narration"
     /\ pc = "done" => session' = session]_vars

\* C25 witness: a turn of respond ended with the player's action, the
\* events of a roll and of a logged event in the order the tools were
\* executed, and the narration last
C25_Witness ==
  /\ variant = "respond"
  /\ pc = "done"
  /\ Len(trace) = 2
  /\ trace[1].name = "roll_dice"
  /\ trace[2].name = "log_event"
  /\ Len(session.events) = 4
  /\ session.events[1].event_type = "player_action"
  /\ session.events[2].event_type = "dice_roll"
  /\ session.events[3].event_type = "npc_dialogue"
  /\ session.events[4].event_type = "narration"

\* C26: when a streamed turn over a provider stream has ended, the tool
\* calls respond_stream executed are the tool calls chat_stream reported
\* when completion was signalled: as many, in the same order, each with the
\* reported id, name and arguments, each executed once.
C26_StreamedCallsDelivered ==
  (variant = "respond_stream" /\ client_pc = "returned" /\ pc = "done") =>
     /\ Len(trace) = Len(ReportedToolCalls)
     /\ \A j \in 1..Len(trace) :
          /\ trace[j].id = ReportedToolCalls[j].id
          /\ trace[j].name = ReportedToolCalls[j].function.name
          /\ trace[j].arguments = ReportedToolCalls[j].function.arguments

\* the entries of the accumulator in ascending order of their index
ByIndex(acc) ==
  [p \in 1..Len(acc) |->
     acc[CHOOSE q \in 1..Len(acc) :
           Cardinality({o \in 1..Len(acc) : acc[o].index < acc[q].index}) = p - 1]]

\* C27: the tool calls that chat_stream reports in the chunk it yields for
\* a finish reason are the entries of its accumulator in ascending order of
\* their positional index, whatever the order in which the indices first
\* arrived.
C27_ReportedByIndex ==
  (/\ yielded # <<>>
   /\ IsFinishChunk(yielded[Len(yielded)])
   /\ yielded[Len(yielded)].after = Len(provider_chunks)) =>
     yielded[Len(yielded)].chunk.tool_calls =
       [p \in 1..Len(tool_call_accumulator) |->
          Completed(ByIndex(tool_call_accumulator)[p])]

\* the tool calls the first response of the turn carried
FirstRequested == IF script = <<>> THEN <<>> ELSE script[1].tool_calls

\* C28: a turn of respond_stream makes at most two model calls and comes
\* to its end (it returns, or an exception leaves it); the tool calls it
\* executes and the tool-result messages it appends are those of the first
\* response only, so that after the second model call there are exactly
\* the executions and tool results of the first response, whatever tool
\* calls the second response carried.
C28_TwoCallsThenEnd ==
  /\ [](/\ modelCalls <= 2
        /\ Len(trace) <= Len(FirstRequested)
        /\ Len(ToolMessages) <= Len(trace)
        /\ \A j \in 1..Len(trace) : trace[j].id = FirstRequested[j].id
        /\ \A j \in 1..Len(ToolMessages) :
             ToolMessages[j].tool_call_id = FirstRequested[j].id
        /\ modelCalls = 2 =>
             /\ Len(trace) = Len(FirstRequested)
             /\ Len(ToolMessages) = Len(FirstRequested)
             /\ Len(messages) = 4 + Len(FirstRequested))
  /\ <>(pc \in {"done", "failed"})

\* C28 witness: a streamed turn ended after two model calls although the
\* second response carried a tool call; one tool call, of the first
\* response, was executed
C28_Witness ==
  /\ variant = "respond_stream"
  /\ pc = "done"
  /\ modelCalls = 2
  /\ script[2].tool_calls # <<>>
  /\ Len(trace) = 1
  /\ Len(ToolMessages) = 1

\* C29: once the turn has built its message history, every step leaves the
\* messages already in it as they are and in place (the history of a later
\* model call has the history of an earlier one as a prefix); the history
\* starts with the system messages, the system prompt first, followed by
\* the user message with the player's text, and what comes after is
\* assistant and tool messages only.
C29_HistoryAppendOnly ==
  [][/\ pc # "idle" =>
          /\ Len(messages') >= Len(messages)
          /\ SubSeq(messages', 1, Len(messages)) = messages
     /\ pc' # "idle" =>
          /\ messages'[1].role = "system"
          /\ messages'[1].content = Some(SystemPrompt)
          /\ \E u \in 2..Len(messages') :
               /\ messages'[u].role = "user"
               /\ messages'[u].content = Some(PlayerMessage)
               /\ \A k \in 1..(u - 1) : messages'[k].role = "system"
               /\ \A k \in (u + 1)..Len(messages') :
                    messages'[k].role \in {"assistant", "tool"}]_vars

\* C29 witness: a second model call of respond_stream was made with a
\* history of the four initial messages (a campaign is loaded), the
\* assistant message and two tool results
C29_Witness ==
  /\ variant = "respond_stream"
  /\ modelCalls = 2
  /\ Len(messages) = 7
  /\ messages[4].role = "user"
  /\ messages[5].role = "assistant"
  /\ messages[7].role = "tool"

\* C30: the message history a method submits to its first model call is
\* the history the other method builds for the same agent, session log and
\* player message: the system prompt, the campaign context when a campaign
\* is loaded, the session context and the user message.
C30_SameInitialHistory ==
  (modelCalls = 0 /\ pc \in {"awaiting", "s_awaiting1"}) =>
     /\ variant = "respond" =>
          messages = InitialStreamMessages(session, campaign_manager, campaign)
     /\ variant = "respond_stream" => messages = InitialMessages(session)

(***************************************************************************)
(* C31: when the agent has no campaign manager, _execute_tool called with  *)
(* track_npc, track_location, add_plot_thread or update_plot_thread        *)
(* returns "Unknown tool: <name>" whatever the arguments, raises nothing   *)
(* and leaves the session log (and the campaign state) as it was.          *)
(***************************************************************************)
C31_CampaignToolsUnknown ==
  (/\ env = "campaign"
   /\ ~campaign_manager
   /\ last_call.name \in {CampaignTools[k] : k \in 1..Len(CampaignTools)})
  => /\ last_call.r.raised = "none"
     /\ last_call.r.result = <<"Unknown tool: ", last_call.name>>
     /\ last_call.r.session = last_call.session
     /\ last_call.r.campaign = last_call.campaign
     /\ last_call.r.campaign_file = last_call.campaign_file

\* an agent without campaign manager was asked to track an NPC with no
\* description, after an update of a plot thread
C31_Witness ==
  /\ env = "campaign"
  /\ ~campaign_manager
  /\ Len(trace) = 2
  /\ trace[1].name = "update_plot_thread"
  /\ last_call.name = "track_npc"
  /\ "description" \notin DOMAIN last_call.arguments
  /\ last_call.r.result = <<"Unknown tool: ", "track_npc">>

(***************************************************************************)
(* C32: an update_plot_thread call that does not succeed (no plot thread   *)
(* has the title, or the status is none of active, completed, abandoned,   *)
(* on_hold) leaves the campaign unchanged: no update is appended and no    *)
(* status changes.                                                         *)
(***************************************************************************)
C32_UpdateAtomic ==
  (/\ env = "campaign"
   /\ campaign_manager
   /\ last_call.name = "update_plot_thread"
   /\ \/ last_call.r.raised # "none"
      \/ last_call.r.result[1] = "Plot thread '")
  => last_call.r.campaign = last_call.campaign

\* the track_npc calls for `name` that returned, in order
NpcCalls(name) ==
  LET Tracked(e) == /\ e.name = "track_npc"
                    /\ e.raised = "none"
                    /\ e.arguments.name = name
  IN SelectSeq(trace, Tracked)

(***************************************************************************)
(* C33: track_npc is an upsert keyed by name: the campaign holds one NPC   *)
(* profile per name; the profile of a tracked name has the description of  *)
(* the latest call for the name and, as first_appeared_session, the        *)
(* session of the first call for the name, which no later call changes;    *)
(* a call changes role and last-seen location only when it supplies them.  *)
(***************************************************************************)
C33_NpcUpsert ==
  (env = "campaign" /\ campaign_manager /\ campaign.some) =>
    LET npcs == campaign.val.npcs
        before == last_call.campaign.val.npcs
    IN /\ \A j, k \in 1..Len(npcs) : npcs[j].name = npcs[k].name => j = k
       /\ \A k \in 1..Len(npcs) :
            LET calls == NpcCalls(npcs[k].name)
            IN calls # <<>> =>
                 /\ npcs[k].description = calls[Len(calls)].arguments.description
                 /\ npcs[k].first_appeared_session = Some(calls[1].session_id)
       /\ (last_call.name = "track_npc" /\ last_call.r.raised = "none") =>
            \A k \in 1..Len(before) :
              LET after == last_call.r.campaign.val.npcs[k]
              IN /\ after.first_appeared_session =
                      before[k].first_appeared_session
                 /\ after.role # before[k].role =>
                      /\ before[k].name = last_call.arguments.name
                      /\ "role" \in DOMAIN last_call.arguments
                 /\ after.last_seen_location # before[k].last_seen_location =>
                      /\ before[k].name = last_call.arguments.name
                      /\ "location" \in DOMAIN last_call.arguments

\* the knowledge items a call supplies
SuppliedKnowledge(arguments) ==
  IF "knowledge" \in DOMAIN arguments THEN arguments.knowledge ELSE <<>>

(***************************************************************************)
(* C34: the knowledge list of every NPC of the campaign holds no item      *)
(* twice, and its items are in the order in which they were first          *)
(* supplied: a track_npc call keeps the items the NPC has, in their order, *)
(* and puts the new items it supplies behind them, each once, in the       *)
(* order of the call.                                                      *)
(***************************************************************************)
C34_KnowledgeDistinct ==
  (env = "campaign" /\ campaign_manager /\ campaign.some) =>
    LET npcs == campaign.val.npcs
    IN /\ \A k \in 1..Len(npcs) :
            \A a, b \in 1..Len(npcs[k].knowledge) :
               npcs[k].knowledge[a] = npcs[k].knowledge[b] => a = b
       /\ (last_call.name = "track_npc" /\ last_call.r.raised = "none") =>
            LET before == last_call.campaign.val.npcs
                after == last_call.r.campaign.val.npcs
                p == FirstWith(before, "name", last_call.arguments.name)
                q == FirstWith(after, "name", last_call.arguments.name)
            IN after[q].knowledge =
                 AddKnowledge(IF p = 0 THEN <<>> ELSE before[p].knowledge,
                              SuppliedKnowledge(last_call.arguments))

(***************************************************************************)
(* C35: in every campaign state reached from a created campaign or a       *)
(* loaded template by campaign tool calls, no two plot threads have the    *)
(* same id; and an update_plot_thread call changes at most the first plot  *)
(* thread with the given title: every other plot thread stays as it was.   *)
(***************************************************************************)
C35_PlotIdsDistinct ==
  (env = "campaign" /\ campaign_manager /\ campaign.some) =>
    LET pts == campaign.val.plot_threads
    IN /\ \A j, k \in 1..Len(pts) : pts[j].id = pts[k].id => j = k
       /\ (last_call.name = "update_plot_thread" /\ last_call.campaign.some) =>
            LET before == last_call.campaign.val.plot_threads
                after == last_call.r.campaign.val.plot_threads
                p == FirstWith(before, "title", last_call.arguments.title)
            IN /\ Len(after) = Len(before)
               /\ \A k \in 1..Len(before) : k # p => after[k] = before[k]
               /\ (p # 0 /\ last_call.r.raised = "none") =>
                    /\ Len(after[p].updates) = Len(before[p].updates) + 1
                    /\ after[p].id = before[p].id

\* a plot thread was added with the title of the template's second plot
\* thread, and an update with that title then completed the template's
\* plot thread and left the added one as it was
C35_Witness ==
  /\ env = "campaign"
  /\ campaign.some
  /\ Len(trace) = 2
  /\ trace[1].name = "add_plot_thread"
  /\ last_call.name = "update_plot_thread"
  /\ last_call.r.raised = "none"
  /\ Len(campaign.val.plot_threads) = 3
  /\ campaign.val.plot_threads[3].id = PlotId(3)
  /\ campaign.val.plot_threads[3].title = campaign.val.plot_threads[2].title
  /\ campaign.val.plot_threads[2].status = "completed"
  /\ Len(campaign.val.plot_threads[2].updates) = 1
  /\ campaign.val.plot_threads[3].status = "active"
  /\ campaign.val.plot_threads[3].updates = <<>>

====
